---- MODULE Spec2Model ----
(***************************************************************************)
(* A model of the NBT codec of njhanley/nbt: the binary Encoder             *)
(* (encode.go:213-410), the binary Decoder (decode.go) and the JSON bridge  *)
(* (types.go:203-883).                                                      *)
(*                                                                          *)
(* Go values are modelled as pairs <<kind, data>> where kind is the dynamic *)
(* Go type held by an interface{} ("int8", "[]byte", "*List", ...) and data *)
(* its value.  Machine integers of up to 32 bits are integers; a 64-bit     *)
(* word (int64, float64 bits, a Go int used as a length) is the pair        *)
(* <<hi, lo>> of its two signed 32-bit halves; a float32 is its 32 bits.    *)
(* A string or []byte is a sequence of bytes 0..255.                        *)
(***************************************************************************)
EXTENDS Integers, Sequences, FiniteSets, TLC

VARIABLES
    tree,           \* the *NamedTag handed to Encode / MarshalJSON
    sortCompounds,  \* Encoder.sortCompounds
    pc,             \* position of the calling program
    enc,            \* outcome of the first Encoder.Encode call
    enc2,           \* outcome of a second Encoder.Encode call on the same tree
    wire,           \* the byte stream handed to NewDecoder
    fault,          \* how wire was derived from the encoder's output
    dec,            \* outcome of Decoder.Decode
    json,           \* outcome of NamedTag.MarshalJSON
    unj,            \* outcome of NamedTag.UnmarshalJSON
    lenIn,          \* a length handed to a length-field writer
    lenOut,         \* outcome of the length-field writer
    dec2,           \* outcome of a second Decoder.Decode call
    readers,        \* the offsetReaders allocated, by address
    decs,           \* the Decoders of a program that runs several
    encs,           \* the Encoders of a program that runs several
    tables,         \* the package-level typeNames and typeIDs
    cli             \* the nbtjs process

vars ==
    <<tree, sortCompounds, pc, enc, enc2, wire, fault, dec, json, unj, lenIn, lenOut,
      dec2, readers, decs, encs, tables, cli>>

\* the state of the programs that run several codecs, and of nbtjs
others == <<dec2, readers, decs, encs, tables, cli>>

(***************************************************************************)
(* Tag types                                                                *)
(***************************************************************************)
TypeEnd == 0
TypeByte == 1
TypeShort == 2
TypeInt == 3
TypeLong == 4
TypeFloat == 5
TypeDouble == 6
TypeByteArray == 7
TypeString == 8
TypeList == 9
TypeCompound == 10
TypeIntArray == 11
TypeLongArray == 12

MaxInt16 == 32767
MaxInt32 == 2147483647
MinInt32 == -2147483647 - 1

(***************************************************************************)
(* Go values                                                                *)
(***************************************************************************)
V(kind, data) == <<kind, data>>
Kind(v) == v[1]
Data(v) == v[2]
Nil == <<"nil", <<>>>>

\* len() of a slice or string, as a 64-bit Go int
GoLen(s) == <<0, Len(s)>>

\* length > math.MaxInt16, length > math.MaxInt32 on a 64-bit Go int
GtMaxInt16(length) ==
    \/ length[1] > 0
    \/ length[1] = 0 /\ (length[2] < 0 \/ length[2] > MaxInt16)

GtMaxInt32(length) ==
    \/ length[1] > 0
    \/ length[1] = 0 /\ length[2] < 0

\* the conversions int16(length) and int32(length): the low bits, signed
Int16Of(length) ==
    LET m == length[2] % 65536 IN IF m >= 32768 THEN m - 65536 ELSE m

Int32Of(length) == length[2]

(***************************************************************************)
(* encoding/binary, big endian                                              *)
(***************************************************************************)
\* arithmetic shift right by k bits of a signed 32-bit value
Shr(n, k) ==
    CASE k = 0 -> n
      [] k = 8 -> n \div 256
      [] k = 16 -> n \div 65536
      [] k = 24 -> n \div 16777216
      [] OTHER -> IF n < 0 THEN -1 ELSE 0

\* the bytes in little-endian order
PutIntLittleEndian(n, w) == [i \in 1..w |-> Shr(n, 8 * (i - 1)) % 256]

\* the w big-endian bytes of the two's complement of n
PutInt(n, w) == [i \in 1..w |-> Shr(n, 8 * (w - i)) % 256]

PutWord64(v) == PutInt(v[1], 4) \o PutInt(v[2], 4)

RECURSIVE Flatten(_)
Flatten(ss) == IF ss = <<>> THEN <<>> ELSE Head(ss) \o Flatten(Tail(ss))

ScalarKinds == {"int8", "int16", "int32", "int64", "float32", "float64"}
FixedSliceKinds ==
    {"[]int8", "[]byte", "[]int16", "[]int32", "[]int64", "[]float32", "[]float64"}

\* the bytes binary.Write produces for a fixed-size value
FixedBytes(kind, d) ==
    CASE kind = "int8" -> PutInt(d, 1)
      [] kind = "int16" -> PutInt(d, 2)
      [] kind \in {"int32", "float32"} -> PutInt(d, 4)
      [] kind \in {"int64", "float64"} -> PutWord64(d)
      [] kind \in {"[]int8", "[]byte"} -> Flatten([i \in 1..Len(d) |-> PutInt(d[i], 1)])
      [] kind = "[]int16" -> Flatten([i \in 1..Len(d) |-> PutInt(d[i], 2)])
      [] kind \in {"[]int32", "[]float32"} -> Flatten([i \in 1..Len(d) |-> PutInt(d[i], 4)])
      [] kind \in {"[]int64", "[]float64"} -> Flatten([i \in 1..Len(d) |-> PutWord64(d[i])])

(***************************************************************************)
(* Encoder (encode.go:213-410).  An encoder state w holds the bytes the     *)
(* io.Writer has received (out), the error the call is returning (err),     *)
(* Encoder.sortCompounds (sort) and the orders in which the map iterations  *)
(* to come deliver their members (rnd).  orders, role and entries record    *)
(* the order each map iteration took, the field every byte written belongs  *)
(* to, and the byte range of every compound member.  room is the number of  *)
(* bytes the io.Writer takes before its Write returns an error (-1: it      *)
(* takes them all); late counts the Write calls made after an error.        *)
(***************************************************************************)
NewEncoder(sort, rnd) ==
    [out |-> <<>>, role |-> <<>>, entries |-> {}, err |-> "nil",
     sort |-> sort, rnd |-> rnd, orders |-> <<>>, room |-> -1, late |-> 0]

\* one Write call: the writer takes the bytes, or those it has room for and
\* returns its error
Put(w, bytes, field) ==
    LET fits == w.room < 0 \/ Len(w.out) + Len(bytes) <= w.room
        taken == IF fits THEN bytes ELSE SubSeq(bytes, 1, w.room - Len(w.out))
    IN [w EXCEPT !.out = @ \o taken,
                 !.role = @ \o [i \in 1..Len(taken) |-> <<field, i>>],
                 !.err = IF w.err = "nil" /\ ~fits THEN "write error" ELSE @,
                 !.late = @ + (IF w.err # "nil" THEN 1 ELSE 0)]

Fail(w, e) == [w EXCEPT !.err = e]

writeBE(w, v, field) ==
    IF Kind(v) \in ScalarKinds \cup FixedSliceKinds
    THEN Put(w, FixedBytes(Kind(v), Data(v)), field)
    ELSE Fail(w, "binary.Write: invalid type")

writeType(w, typ, field) == Put(w, <<typ>>, field)

writeLength(w, length, field) ==
    IF GtMaxInt32(length)
    THEN Fail(w, "length overflows int32")
    ELSE Put(w, PutInt(Int32Of(length), 4), field)

\* the length field written without the bound check
writeStringLengthUnchecked(w, length, field) ==
    Put(w, PutInt(Int16Of(length), 2), field)

writeStringLength(w, length, field) ==
    IF GtMaxInt16(length)
    THEN Fail(w, "length overflows int16")
    ELSE Put(w, PutInt(Int16Of(length), 2), field)

writeString(w, s, field) ==
    LET w1 == writeStringLength(w, GoLen(s), field \o "len") IN
    IF w1.err # "nil" THEN w1 ELSE writeBE(w1, V("[]byte", s), field)

writeByteArray(w, b) ==
    LET w1 == writeLength(w, GoLen(b), "balen") IN
    IF w1.err # "nil" THEN w1 ELSE writeBE(w1, V("[]byte", b), "data")

writeIntArray(w, a) ==
    LET w1 == writeLength(w, GoLen(a), "ialen") IN
    IF w1.err # "nil" THEN w1 ELSE writeBE(w1, V("[]int32", a), "data")

writeLongArray(w, a) ==
    LET w1 == writeLength(w, GoLen(a), "lalen") IN
    IF w1.err # "nil" THEN w1 ELSE writeBE(w1, V("[]int64", a), "data")

\* Go's < on strings: bytewise lexicographic
RECURSIVE StrLess(_, _)
StrLess(s, t) ==
    IF t = <<>> THEN FALSE
    ELSE IF s = <<>> THEN TRUE
    ELSE IF s[1] # t[1] THEN s[1] < t[1]
    ELSE StrLess(Tail(s), Tail(t))

\* a comparison that takes a name for less than the shorter names
NameLessLongerFirst(x, y) ==
    \/ Len(x.Name) > Len(y.Name)
    \/ Len(x.Name) = Len(y.Name) /\ StrLess(x.Name, y.Name)

NameLess(x, y) == StrLess(x.Name, y.Name)

\* sort.Slice(a, less), as an insertion sort
RECURSIVE InsertSorted(_, _)
InsertSorted(x, a) ==
    IF a = <<>> THEN <<x>>
    ELSE IF NameLess(x, Head(a)) THEN <<x>> \o a
    ELSE <<Head(a)>> \o InsertSorted(x, Tail(a))

\* the members left in the order of the map iteration
SortSliceSkipped(a) == a

RECURSIVE SortSlice(_)
SortSlice(a) ==
    IF a = <<>> THEN <<>> ELSE InsertSorted(Head(a), SortSlice(Tail(a)))

\* the order in which one range loop over a map delivers its keys: the order
\* of the keys in p, any enumeration of the names
MapRange(m, p) == LET Present(n) == n \in DOMAIN m IN SelectSeq(p, Present)

\* List.Length (types.go:794-799)
ListLength(l) ==
    IF l.Type = TypeEnd /\ Kind(l.Array) = "nil"
    THEN [ok |-> TRUE, n |-> <<0, 0>>]
    ELSE IF Kind(l.Array) = "nil"
    THEN [ok |-> FALSE, n |-> <<0, 0>>]
    ELSE [ok |-> TRUE, n |-> GoLen(Data(l.Array))]

RECURSIVE writeNamedTag(_, _)
RECURSIVE writeList(_, _)
RECURSIVE writeCompound(_, _)
RECURSIVE writeMembers(_, _, _)
RECURSIVE writeElements(_, _, _, _)

writeNamedTag(w, tag) ==
    LET w1 == writeType(w, tag.Type, "type") IN
    IF w1.err # "nil" THEN w1
    ELSE IF tag.Type = TypeEnd THEN w1
    ELSE
    LET w2 == writeString(w1, tag.Name, "name")
        k == Kind(tag.Payload)
        d == Data(tag.Payload)
    IN
    IF w2.err # "nil" THEN w2
    ELSE
    CASE tag.Type \in TypeByte..TypeDouble -> writeBE(w2, tag.Payload, "data")
      [] tag.Type = TypeByteArray ->
            IF k = "[]byte" THEN writeByteArray(w2, d)
            ELSE Fail(w2, "TypeAssertionError")
      [] tag.Type = TypeString ->
            IF k = "string" THEN writeString(w2, d, "str")
            ELSE Fail(w2, "TypeAssertionError")
      [] tag.Type = TypeList ->
            IF k = "*List" THEN writeList(w2, d)
            ELSE Fail(w2, "TypeAssertionError")
      [] tag.Type = TypeCompound ->
            IF k = "Compound" THEN writeCompound(w2, d)
            ELSE Fail(w2, "TypeAssertionError")
      [] tag.Type = TypeIntArray ->
            IF k = "[]int32" THEN writeIntArray(w2, d)
            ELSE Fail(w2, "TypeAssertionError")
      [] tag.Type = TypeLongArray ->
            IF k = "[]int64" THEN writeLongArray(w2, d)
            ELSE Fail(w2, "TypeAssertionError")
      [] OTHER -> Fail(w2, "unknown type")

\* the loops of writeList over the elements of l.Array
writeElements(w, typ, a, i) ==
    IF i > Len(a) THEN w
    ELSE
    LET w1 == CASE typ = TypeByteArray -> writeByteArray(w, a[i])
                [] typ = TypeString -> writeString(w, a[i], "str")
                [] typ = TypeList -> writeList(w, a[i])
                [] typ = TypeCompound -> writeCompound(w, a[i])
                [] typ = TypeIntArray -> writeIntArray(w, a[i])
                [] typ = TypeLongArray -> writeLongArray(w, a[i])
    IN IF w1.err # "nil" THEN w1 ELSE writeElements(w1, typ, a, i + 1)

ElementKind(typ) ==
    CASE typ = TypeByteArray -> "[][]byte"
      [] typ = TypeString -> "[]string"
      [] typ = TypeList -> "[]*List"
      [] typ = TypeCompound -> "[]Compound"
      [] typ = TypeIntArray -> "[][]int32"
      [] typ = TypeLongArray -> "[][]int64"

writeList(w, l) ==
    LET w1 == writeType(w, l.Type, "ltype")
        n == ListLength(l)
    IN
    IF w1.err # "nil" THEN w1
    ELSE IF ~n.ok THEN Fail(w1, "reflect.ValueError")
    ELSE
    LET w2 == writeLength(w1, n.n, "listlen") IN
    IF w2.err # "nil" THEN w2
    ELSE
    CASE l.Type = TypeEnd -> w2
      [] l.Type \in TypeByte..TypeDouble -> writeBE(w2, l.Array, "data")
      [] l.Type \in {TypeByteArray, TypeString, TypeList, TypeCompound,
                     TypeIntArray, TypeLongArray} ->
            IF Kind(l.Array) = ElementKind(l.Type)
            THEN writeElements(w2, l.Type, Data(l.Array), 1)
            ELSE Fail(w2, "TypeAssertionError")
      [] OTHER -> Fail(w2, "unknown type")

\* the loops of writeCompound over the members, in the order given
writeMembers(w, a, i) ==
    IF i > Len(a) THEN w
    ELSE
    LET start == Len(w.out) + 1
        w1 == writeNamedTag(w, a[i])
    IN
    IF w1.err # "nil" THEN w1
    ELSE writeMembers([w1 EXCEPT !.entries = @ \cup {<<start, Len(w1.out)>>}],
                      a, i + 1)

\* a compound terminated by a whole named tag of type End: type byte and name
writeCompoundNamedEnd(w, m) ==
    LET names == MapRange(m, Head(w.rnd))
        a == [i \in 1..Len(names) |->
                [Type |-> m[names[i]].Type, Name |-> names[i],
                 Payload |-> m[names[i]].Payload]]
        w0 == [w EXCEPT !.rnd = Tail(@), !.orders = Append(@, names)]
        w1 == IF w.sort THEN writeMembers(w0, SortSlice(a), 1)
                        ELSE writeMembers(w0, a, 1)
    IN
    IF w1.err # "nil" THEN w1
    ELSE writeString(writeType(w1, TypeEnd, "type"), <<>>, "name")

writeCompound(w, m) ==
    LET names == MapRange(m, Head(w.rnd))
        a == [i \in 1..Len(names) |->
                [Type |-> m[names[i]].Type, Name |-> names[i],
                 Payload |-> m[names[i]].Payload]]
        w0 == [w EXCEPT !.rnd = Tail(@), !.orders = Append(@, names)]
        w1 == IF w.sort THEN writeMembers(w0, SortSlice(a), 1)
                        ELSE writeMembers(w0, a, 1)
    IN
    IF w1.err # "nil" THEN w1
    ELSE writeNamedTag(w1, [Type |-> TypeEnd, Name |-> <<>>, Payload |-> Nil])

\* Encoder.Encode
Encode(sort, rnd, tag) == writeNamedTag(NewEncoder(sort, rnd), tag)

\* Encoder.Encode on a writer that has room for so many bytes
EncodeTo(sort, rnd, tag, room) ==
    writeNamedTag([NewEncoder(sort, rnd) EXCEPT !.room = room], tag)

(***************************************************************************)
(* Decoder (decode.go).  A read takes the stream s and the offset off of    *)
(* the offsetReader and returns the error, the new offset and the value.    *)
(* dec.wrap tags an error with dec.r.offset, the off of the result.         *)
(***************************************************************************)
Ok(off, val) == [err |-> "nil", off |-> off, val |-> val]
Err(e, off) == [err |-> e, off |-> off, val |-> Nil]

\* the signed value of w big-endian bytes, w in {1, 2, 4}
GetInt(b) ==
    LET top == IF b[1] >= 128 THEN b[1] - 256 ELSE b[1] IN
    CASE Len(b) = 1 -> top
      [] Len(b) = 2 -> top * 256 + b[2]
      [] Len(b) = 4 -> top * 16777216 + b[2] * 65536 + b[3] * 256 + b[4]

GetWord64(b) == <<GetInt(SubSeq(b, 1, 4)), GetInt(SubSeq(b, 5, 8))>>

Width(kind) ==
    CASE kind \in {"int8", "uint8"} -> 1
      [] kind = "int16" -> 2
      [] kind \in {"int32", "float32"} -> 4
      [] kind \in {"int64", "float64"} -> 8

GetFixed(kind, b) ==
    CASE kind = "uint8" -> b[1]
      [] kind \in {"int8", "int16", "int32", "float32"} -> GetInt(b)
      [] kind \in {"int64", "float64"} -> GetWord64(b)

\* a read that takes up to 8 bytes missing at the end of the input as
\* zero
readBEZeroFilled(s, off, kind, count) ==
    LET w == Width(kind)
        avail == Len(s) - off
        padded == IF count * w > avail
                  THEN s \o [i \in 1..(count * w - avail) |-> 0]
                  ELSE s
    IN
    IF count <= (avail + 8) \div w
    THEN Ok(off + count * w,
            [i \in 1..count |->
                GetFixed(kind, SubSeq(padded, off + (i - 1) * w + 1, off + i * w))])
    ELSE IF avail <= 0 THEN Err("EOF", off)
    ELSE Err("unexpected EOF", Len(s))

\* an offsetReader that leaves the bytes of a failed read uncounted
readBEUncounted(s, off, kind, count) ==
    LET avail == Len(s) - off
        w == Width(kind)
    IN
    IF count = 0 THEN Ok(off, <<>>)
    ELSE IF count <= avail \div w
    THEN Ok(off + count * w,
            [i \in 1..count |->
                GetFixed(kind, SubSeq(s, off + (i - 1) * w + 1, off + i * w))])
    ELSE IF avail = 0 THEN Err("EOF", off)
    ELSE Err("unexpected EOF", off)

\* binary.Read (io.ReadFull) of count values of the kind from the offsetReader
readBE(s, off, kind, count) ==
    LET avail == Len(s) - off
        w == Width(kind)
    IN
    IF count = 0 THEN Ok(off, <<>>)
    ELSE IF count <= avail \div w
    THEN Ok(off + count * w,
            [i \in 1..count |->
                GetFixed(kind, SubSeq(s, off + (i - 1) * w + 1, off + i * w))])
    ELSE IF avail = 0 THEN Err("EOF", off)
    ELSE Err("unexpected EOF", Len(s))

\* binary.Read of one value
readOne(s, off, kind) ==
    LET first(r) == IF r.err # "nil" THEN r ELSE Ok(r.off, r.val[1])
    IN first(readBE(s, off, kind, 1))

\* a length field read without the sign check: a negative length counts as huge
readArrayUnchecked(s, off, lenKind, kind) ==
    LET body(n) ==
            IF n.err # "nil" THEN n
            ELSE readBE(s, n.off, kind, IF n.val < 0 THEN MaxInt32 ELSE n.val)
    IN body(readOne(s, off, lenKind))

\* a length field followed by that many values
readArray(s, off, lenKind, kind) ==
    LET body(n) ==
            IF n.err # "nil" THEN n
            ELSE IF n.val < 0 THEN Err("negative length", n.off)
            ELSE readBE(s, n.off, kind, n.val)
    IN body(readOne(s, off, lenKind))

readByteArray(s, off) == readArray(s, off, "int32", "uint8")
\* a string read with a 32-bit length field
readStringInt32(s, off) == readArray(s, off, "int32", "uint8")
readString(s, off) == readArray(s, off, "int16", "uint8")
readIntArray(s, off) == readArray(s, off, "int32", "int32")
readLongArray(s, off) == readArray(s, off, "int32", "int64")

RECURSIVE readNamedTag(_, _)
RECURSIVE readList(_, _)
RECURSIVE readCompound(_, _, _)
RECURSIVE readElements(_, _, _, _, _)

\* a reader that fills the tag in as it goes and returns it with the error
readNamedTagPartial(s, off) ==
    LET boxed(kind, r) == IF r.err # "nil" THEN r ELSE Ok(r.off, V(kind, r.val))
        payload(t, o) ==
            CASE t = TypeByte -> boxed("int8", readOne(s, o, "int8"))
              [] t = TypeShort -> boxed("int16", readOne(s, o, "int16"))
              [] t = TypeInt -> boxed("int32", readOne(s, o, "int32"))
              [] t = TypeLong -> boxed("int64", readOne(s, o, "int64"))
              [] t = TypeFloat -> boxed("float32", readOne(s, o, "float32"))
              [] t = TypeDouble -> boxed("float64", readOne(s, o, "float64"))
              [] t = TypeByteArray -> boxed("[]byte", readByteArray(s, o))
              [] t = TypeString -> boxed("string", readString(s, o))
              [] t = TypeList -> boxed("*List", readList(s, o))
              [] t = TypeCompound -> boxed("Compound", readCompound(s, o, <<>>))
              [] t = TypeIntArray -> boxed("[]int32", readIntArray(s, o))
              [] t = TypeLongArray -> boxed("[]int64", readLongArray(s, o))
              [] OTHER -> Err("unknown type", o)
        tagged(t, name, p) ==
            IF p.err # "nil"
            THEN [p EXCEPT !.val = V("*NamedTag",
                                     [Type |-> t, Name |-> name, Payload |-> Nil])]
            ELSE Ok(p.off, [Type |-> t, Name |-> name, Payload |-> p.val])
        named(t, name) ==
            IF name.err # "nil" THEN name
            ELSE tagged(t, name.val, payload(t, name.off))
        typed(typ) ==
            IF typ.err # "nil" THEN typ
            ELSE IF typ.val = TypeEnd
            THEN Ok(typ.off, [Type |-> TypeEnd, Name |-> <<>>, Payload |-> Nil])
            ELSE named(typ.val, readString(s, typ.off))
    IN typed(readOne(s, off, "uint8"))

readNamedTag(s, off) ==
    LET boxed(kind, r) == IF r.err # "nil" THEN r ELSE Ok(r.off, V(kind, r.val))
        payload(t, o) ==
            CASE t = TypeByte -> boxed("int8", readOne(s, o, "int8"))
              [] t = TypeShort -> boxed("int16", readOne(s, o, "int16"))
              [] t = TypeInt -> boxed("int32", readOne(s, o, "int32"))
              [] t = TypeLong -> boxed("int64", readOne(s, o, "int64"))
              [] t = TypeFloat -> boxed("float32", readOne(s, o, "float32"))
              [] t = TypeDouble -> boxed("float64", readOne(s, o, "float64"))
              [] t = TypeByteArray -> boxed("[]byte", readByteArray(s, o))
              [] t = TypeString -> boxed("string", readString(s, o))
              [] t = TypeList -> boxed("*List", readList(s, o))
              [] t = TypeCompound -> boxed("Compound", readCompound(s, o, <<>>))
              [] t = TypeIntArray -> boxed("[]int32", readIntArray(s, o))
              [] t = TypeLongArray -> boxed("[]int64", readLongArray(s, o))
              [] OTHER -> Err("unknown type", o)
        tagged(t, name, p) ==
            IF p.err # "nil" THEN p
            ELSE Ok(p.off, [Type |-> t, Name |-> name, Payload |-> p.val])
        named(t, name) ==
            IF name.err # "nil" THEN name
            ELSE tagged(t, name.val, payload(t, name.off))
        typed(typ) ==
            IF typ.err # "nil" THEN typ
            ELSE IF typ.val = TypeEnd
            THEN Ok(typ.off, [Type |-> TypeEnd, Name |-> <<>>, Payload |-> Nil])
            ELSE named(typ.val, readString(s, typ.off))
    IN typed(readOne(s, off, "uint8"))

\* the loops of readList: elements i..length of the array a read so far
readElements(s, off, typ, length, a) ==
    LET next(r) ==
            IF r.err # "nil" THEN r
            ELSE readElements(s, r.off, typ, length, Append(a, r.val))
    IN
    IF Len(a) = length THEN Ok(off, a)
    ELSE next(CASE typ = TypeByteArray -> readByteArray(s, off)
                [] typ = TypeString -> readString(s, off)
                [] typ = TypeList -> readList(s, off)
                [] typ = TypeCompound -> readCompound(s, off, <<>>)
                [] typ = TypeIntArray -> readIntArray(s, off)
                [] typ = TypeLongArray -> readLongArray(s, off))

readList(s, off) ==
    LET list(t, kind, r) ==
            IF r.err # "nil" THEN r
            ELSE Ok(r.off, [Type |-> t, Array |-> V(kind, r.val)])
        slice(t, kind, o, n) == list(t, "[]" \o kind, readBE(s, o, kind, n))
        array(t, o, n) ==
            CASE t = TypeEnd -> Ok(o, [Type |-> t, Array |-> Nil])
              [] t = TypeByte -> slice(t, "int8", o, n)
              [] t = TypeShort -> slice(t, "int16", o, n)
              [] t = TypeInt -> slice(t, "int32", o, n)
              [] t = TypeLong -> slice(t, "int64", o, n)
              [] t = TypeFloat -> slice(t, "float32", o, n)
              [] t = TypeDouble -> slice(t, "float64", o, n)
              [] t \in {TypeByteArray, TypeString, TypeList, TypeCompound,
                        TypeIntArray, TypeLongArray} ->
                    list(t, ElementKind(t), readElements(s, o, t, n, <<>>))
              [] OTHER -> Err("unknown type", o)
        counted(t, length) ==
            IF length.err # "nil" THEN length
            ELSE IF length.val < 0 THEN Err("negative length", length.off)
            ELSE array(t, length.off, length.val)
        typed(typ) ==
            IF typ.err # "nil" THEN typ
            ELSE counted(typ.val, readOne(s, typ.off, "int32"))
    IN typed(readOne(s, off, "uint8"))

\* the lookup that finds no name
ExistsNever(m, name) == FALSE

\* _, exists := m[name]
Exists(m, name) == name \in DOMAIN m

\* the loop of readCompound, m being the map built so far
readCompound(s, off, m) ==
    LET entry(tag) ==
            IF tag.err # "nil" THEN tag
            ELSE IF tag.val.Type = TypeEnd THEN Ok(tag.off, m)
            ELSE IF Exists(m, tag.val.Name) THEN Err("duplicate name", tag.off)
            ELSE readCompound(s, tag.off,
                    [k \in DOMAIN m \cup {tag.val.Name} |->
                        IF k = tag.val.Name
                        THEN [Type |-> tag.val.Type, Payload |-> tag.val.Payload]
                        ELSE m[k]])
    IN entry(readNamedTag(s, off))

\* Decoder.Decode on a Decoder whose offsetReader is at offset off
Decode(s, off) == readNamedTag(s, off)

(***************************************************************************)
(* The Decoder step by step.  A decoder d holds the stream s and the offset *)
(* off of its offsetReader, the calls in progress (stack, the innermost     *)
(* last) and the result ret the innermost call that ended is returning to   *)
(* its caller (err "none": no call has just ended).  A frame is a call of   *)
(* readNamedTag before its switch (tag) or at it (payload), of readList     *)
(* before its switch (list) or in one of its loops (elems), or of           *)
(* readCompound (compound); t, name, n and acc are its locals typ, name,    *)
(* length and a or m; at is the offset at which its loop iteration in       *)
(* progress began.  failed is the first error a read or a check returned;   *)
(* late is 1 once the call took a step after that other than returning to   *)
(* its caller, idle is 1 once a loop iteration ended without a byte         *)
(* consumed.                                                                *)
(***************************************************************************)
Frame(op, t, name, n, acc, at) ==
    [op |-> op, t |-> t, name |-> name, n |-> n, acc |-> acc, at |-> at]

Running == [err |-> "none", val |-> Nil]

NoError == [err |-> "nil", off |-> 0]

Top(d) == d.stack[Len(d.stack)]

\* the called function goes on as the frame f, having read up to off
Goto(d, f, off) == [d EXCEPT !.stack[Len(d.stack)] = f, !.off = off]

\* a call of the function that starts as the frame f
Call(d, f) == [d EXCEPT !.stack = Append(@, f)]

\* return with the result r of a read: the error or the value, and the offset
Return(d, r) ==
    [d EXCEPT !.stack = SubSeq(@, 1, Len(@) - 1),
              !.off = r.off,
              !.ret = [err |-> r.err, val |-> r.val],
              !.failed = IF @.err = "nil" /\ r.err # "nil"
                         THEN [err |-> r.err, off |-> r.off]
                         ELSE @]

\* readNamedTag up to its switch (decode.go:46-59)
\* a readNamedTag that reads a name after an End type byte as well
stepTagNamedEnd(d) ==
    LET named(t, name) ==
            IF name.err # "nil" THEN Return(d, name)
            ELSE IF t = TypeEnd
            THEN Return(d, Ok(name.off, [Type |-> TypeEnd, Name |-> <<>>, Payload |-> Nil]))
            ELSE Goto(d, Frame("payload", t, name.val, 0, <<>>, name.off), name.off)
        typed(typ) ==
            IF typ.err # "nil" THEN Return(d, typ)
            ELSE named(typ.val, readString(d.s, typ.off))
    IN typed(readOne(d.s, d.off, "uint8"))

stepTag(d) ==
    LET named(t, name) ==
            IF name.err # "nil" THEN Return(d, name)
            ELSE Goto(d, Frame("payload", t, name.val, 0, <<>>, name.off), name.off)
        typed(typ) ==
            IF typ.err # "nil" THEN Return(d, typ)
            ELSE IF typ.val = TypeEnd
            THEN Return(d, Ok(typ.off, [Type |-> TypeEnd, Name |-> <<>>, Payload |-> Nil]))
            ELSE named(typ.val, readString(d.s, typ.off))
    IN typed(readOne(d.s, d.off, "uint8"))

\* the switch of readNamedTag (decode.go:61-107)
stepPayload(d) ==
    LET t == Top(d).t
        tagged(kind, r) ==
            IF r.err # "nil" THEN Return(d, r)
            ELSE Return(d, Ok(r.off, [Type |-> t, Name |-> Top(d).name,
                                      Payload |-> V(kind, r.val)]))
    IN
    CASE t = TypeByte -> tagged("int8", readOne(d.s, d.off, "int8"))
      [] t = TypeShort -> tagged("int16", readOne(d.s, d.off, "int16"))
      [] t = TypeInt -> tagged("int32", readOne(d.s, d.off, "int32"))
      [] t = TypeLong -> tagged("int64", readOne(d.s, d.off, "int64"))
      [] t = TypeFloat -> tagged("float32", readOne(d.s, d.off, "float32"))
      [] t = TypeDouble -> tagged("float64", readOne(d.s, d.off, "float64"))
      [] t = TypeByteArray -> tagged("[]byte", readByteArray(d.s, d.off))
      [] t = TypeString -> tagged("string", readString(d.s, d.off))
      [] t = TypeList -> Call(d, Frame("list", 0, <<>>, 0, <<>>, d.off))
      [] t = TypeCompound -> Call(d, Frame("compound", 0, <<>>, 0, <<>>, d.off))
      [] t = TypeIntArray -> tagged("[]int32", readIntArray(d.s, d.off))
      [] t = TypeLongArray -> tagged("[]int64", readLongArray(d.s, d.off))
      [] OTHER -> Return(d, Err("unknown type", d.off))

\* readNamedTag after readList or readCompound returned (decode.go:103-107)
returnPayload(d) ==
    LET kind == IF Top(d).t = TypeList THEN "*List" ELSE "Compound" IN
    IF d.ret.err # "nil" THEN Return(d, Err(d.ret.err, d.off))
    ELSE Return(d, Ok(d.off, [Type |-> Top(d).t, Name |-> Top(d).name,
                              Payload |-> V(kind, d.ret.val)]))

\* readList up to its loops (decode.go:146-200, 249-253)
stepList(d) ==
    LET list(t, kind, r) ==
            IF r.err # "nil" THEN Return(d, r)
            ELSE Return(d, Ok(r.off, [Type |-> t, Array |-> V(kind, r.val)]))
        slice(t, kind, o, n) == list(t, "[]" \o kind, readBE(d.s, o, kind, n))
        array(t, o, n) ==
            CASE t = TypeEnd -> Return(d, Ok(o, [Type |-> t, Array |-> Nil]))
              [] t = TypeByte -> slice(t, "int8", o, n)
              [] t = TypeShort -> slice(t, "int16", o, n)
              [] t = TypeInt -> slice(t, "int32", o, n)
              [] t = TypeLong -> slice(t, "int64", o, n)
              [] t = TypeFloat -> slice(t, "float32", o, n)
              [] t = TypeDouble -> slice(t, "float64", o, n)
              [] t \in {TypeByteArray, TypeString, TypeList, TypeCompound,
                        TypeIntArray, TypeLongArray} ->
                    Goto(d, Frame("elems", t, <<>>, n, <<>>, o), o)
              [] OTHER -> Return(d, Err("unknown type", o))
        counted(t, length) ==
            IF length.err # "nil" THEN Return(d, length)
            ELSE IF length.val < 0 THEN Return(d, Err("negative length", length.off))
            ELSE array(t, length.off, length.val)
        typed(typ) ==
            IF typ.err # "nil" THEN Return(d, typ)
            ELSE counted(typ.val, readOne(d.s, typ.off, "int32"))
    IN typed(readOne(d.s, d.off, "uint8"))

\* the end of a loop iteration that appended to a or added to m
Iterated(d, acc) ==
    [d EXCEPT !.stack[Len(d.stack)].acc = acc,
              !.stack[Len(d.stack)].at = d.off,
              !.ret = Running,
              !.idle = IF d.off > Top(d).at THEN @ ELSE 1]

\* one iteration of a loop of readList (decode.go:201-248), up to the call
\* of readList or readCompound for an element that is a list or a compound
stepElems(d) ==
    LET f == Top(d)
        element(r) ==
            IF r.err # "nil" THEN Return(d, r)
            ELSE Iterated([d EXCEPT !.off = r.off], Append(f.acc, r.val))
    IN
    IF Len(f.acc) = f.n
    THEN Return(d, Ok(d.off, [Type |-> f.t, Array |-> V(ElementKind(f.t), f.acc)]))
    ELSE CASE f.t = TypeByteArray -> element(readByteArray(d.s, d.off))
           [] f.t = TypeString -> element(readString(d.s, d.off))
           [] f.t = TypeList -> Call(d, Frame("list", 0, <<>>, 0, <<>>, d.off))
           [] f.t = TypeCompound -> Call(d, Frame("compound", 0, <<>>, 0, <<>>, d.off))
           [] f.t = TypeIntArray -> element(readIntArray(d.s, d.off))
           [] f.t = TypeLongArray -> element(readLongArray(d.s, d.off))

\* the loop of readList after readList or readCompound returned an element
\* (decode.go:219-223, 227-231)
returnElems(d) ==
    IF d.ret.err # "nil" THEN Return(d, Err(d.ret.err, d.off))
    ELSE Iterated(d, Append(Top(d).acc, d.ret.val))

\* the loop of readCompound calls readNamedTag (decode.go:258-259)
stepCompound(d) == Call(d, Frame("tag", 0, <<>>, 0, <<>>, d.off))

\* a loop that reads the entry again when readNamedTag returns an error
returnCompoundRetrying(d) ==
    LET m == Top(d).acc
        tag == d.ret.val
    IN
    IF d.ret.err # "nil" THEN [d EXCEPT !.off = Top(d).at, !.ret = Running]
    ELSE IF tag.Type = TypeEnd THEN Return(d, Ok(d.off, m))
    ELSE IF Exists(m, tag.Name) THEN Return(d, Err("duplicate name", d.off))
    ELSE Iterated(d, [k \in DOMAIN m \cup {tag.Name} |->
                        IF k = tag.Name
                        THEN [Type |-> tag.Type, Payload |-> tag.Payload]
                        ELSE m[k]])

\* a loop that goes on to the next entry when readNamedTag returns an error
returnCompoundSkipping(d) ==
    LET m == Top(d).acc
        tag == d.ret.val
    IN
    IF d.ret.err # "nil" THEN Iterated(d, m)
    ELSE IF tag.Type = TypeEnd THEN Return(d, Ok(d.off, m))
    ELSE IF Exists(m, tag.Name) THEN Return(d, Err("duplicate name", d.off))
    ELSE Iterated(d, [k \in DOMAIN m \cup {tag.Name} |->
                        IF k = tag.Name
                        THEN [Type |-> tag.Type, Payload |-> tag.Payload]
                        ELSE m[k]])

\* the loop of readCompound after readNamedTag returned (decode.go:260-271)
returnCompound(d) ==
    LET m == Top(d).acc
        tag == d.ret.val
    IN
    IF d.ret.err # "nil" THEN Return(d, Err(d.ret.err, d.off))
    ELSE IF tag.Type = TypeEnd THEN Return(d, Ok(d.off, m))
    ELSE IF Exists(m, tag.Name) THEN Return(d, Err("duplicate name", d.off))
    ELSE Iterated(d, [k \in DOMAIN m \cup {tag.Name} |->
                        IF k = tag.Name
                        THEN [Type |-> tag.Type, Payload |-> tag.Payload]
                        ELSE m[k]])

\* the next step of a Decode call in progress: the innermost call goes on,
\* or its caller takes the result it returned
DecoderStep(d) ==
    LET op == Top(d).op
        next ==
            IF d.ret.err = "none"
            THEN CASE op = "tag" -> stepTag(d)
                   [] op = "payload" -> stepPayload(d)
                   [] op = "list" -> stepList(d)
                   [] op = "elems" -> stepElems(d)
                   [] op = "compound" -> stepCompound(d)
            ELSE CASE op = "payload" -> returnPayload(d)
                   [] op = "elems" -> returnElems(d)
                   [] op = "compound" -> returnCompound(d)
    IN [next EXCEPT !.late = IF d.failed.err # "nil" /\ d.ret.err = "none"
                             THEN 1 ELSE @]

\* NewDecoder on the stream s (decode.go:15-17)
NewDecoder(s) ==
    [s |-> s, off |-> 0, stack |-> <<>>, ret |-> Running, failed |-> NoError,
     idle |-> 0, late |-> 0]

\* dec.Decode() is called (decode.go:30-32)
DecoderCall(d) ==
    [d EXCEPT !.stack = <<Frame("tag", 0, <<>>, 0, <<>>, d.off)>>,
              !.ret = Running, !.failed = NoError]

(***************************************************************************)

(* JSON bridge (types.go:203-883).  A JSON text is modelled by the value it *)
(* denotes: null, a string of Unicode code points, an array, or an object   *)
(* mapping keys (strings of code points) to values.  absent stands for the  *)
(* empty json.RawMessage of a struct field the text does not carry.         *)
(***************************************************************************)
\* the Go type of a scalar payload
ScalarKind(typ) ==
    CASE typ = TypeByte -> "int8"
      [] typ = TypeShort -> "int16"
      [] typ = TypeInt -> "int32"
      [] typ = TypeLong -> "int64"
      [] typ = TypeFloat -> "float32"
      [] typ = TypeDouble -> "float64"

RECURSIVE SetToSeq(_)
SetToSeq(S) ==
    IF S = {} THEN <<>>
    ELSE LET x == CHOOSE y \in S : TRUE IN <<x>> \o SetToSeq(S \ {x})

JNull == <<"null", <<>>>>
JAbsent == <<"absent", <<>>>>
JString(cps) == <<"string", cps>>
JArray(vs) == <<"array", vs>>
JObject(f) == <<"object", f>>

JOk(v) == [err |-> "nil", val |-> v]
JErr(e) == [err |-> e, val |-> JNull]

\* the first failure among the results rs, else the sequence of the values
Collect(rs) ==
    IF \E i \in DOMAIN rs : rs[i].err # "nil"
    THEN JErr(rs[CHOOSE i \in DOMAIN rs :
                    /\ rs[i].err # "nil"
                    /\ \A j \in 1..(i - 1) : rs[j].err = "nil"].err)
    ELSE JOk([i \in DOMAIN rs |-> rs[i].val])

RuneError == 65533
IsCont(b) == b >= 128 /\ b <= 191

\* utf8.DecodeRuneInString at the head of s: the rune and its width, an
\* invalid sequence being RuneError of width 1
DecodeRune(s) ==
    LET b == s[1]
        n == Len(s)
        bad == [r |-> RuneError, w |-> 1]
    IN
    IF b < 128 THEN [r |-> b, w |-> 1]
    ELSE IF b >= 194 /\ b <= 223
    THEN IF n >= 2 /\ IsCont(s[2])
         THEN [r |-> (b - 192) * 64 + (s[2] - 128), w |-> 2] ELSE bad
    ELSE IF b >= 224 /\ b <= 239
    THEN IF /\ n >= 3 /\ IsCont(s[2]) /\ IsCont(s[3])
            /\ (b = 224 => s[2] >= 160) /\ (b = 237 => s[2] <= 159)
         THEN [r |-> (b - 224) * 4096 + (s[2] - 128) * 64 + (s[3] - 128), w |-> 3]
         ELSE bad
    ELSE IF b >= 240 /\ b <= 244
    THEN IF /\ n >= 4 /\ IsCont(s[2]) /\ IsCont(s[3]) /\ IsCont(s[4])
            /\ (b = 240 => s[2] >= 144) /\ (b = 244 => s[2] <= 143)
         THEN [r |-> (b - 240) * 262144 + (s[2] - 128) * 4096
                        + (s[3] - 128) * 64 + (s[4] - 128), w |-> 4]
         ELSE bad
    ELSE bad

\* the code points json.Marshal writes for a Go string: invalid UTF-8 is
\* replaced by U+FFFD
RECURSIVE Runes(_)
Runes(s) ==
    IF s = <<>> THEN <<>>
    ELSE LET d == DecodeRune(s) IN <<d.r>> \o Runes(SubSeq(s, d.w + 1, Len(s)))

\* utf8.EncodeRune
EncodeRune(r) ==
    IF r < 128 THEN <<r>>
    ELSE IF r < 2048 THEN <<192 + (r \div 64), 128 + (r % 64)>>
    ELSE IF r < 65536
    THEN <<224 + (r \div 4096), 128 + ((r \div 64) % 64), 128 + (r % 64)>>
    ELSE <<240 + (r \div 262144), 128 + ((r \div 4096) % 64),
           128 + ((r \div 64) % 64), 128 + (r % 64)>>

\* the Go string json.Unmarshal stores for a JSON string
Utf8(cps) == Flatten([i \in 1..Len(cps) |-> EncodeRune(cps[i])])

(***************************************************************************)
(* strconv on 64-bit integers.  The magnitude of an integer is held as four *)
(* 16-bit limbs, most significant first.                                    *)
(***************************************************************************)
Limbs(v) ==
    <<(v[1] \div 65536) % 65536, v[1] % 65536,
      (v[2] \div 65536) % 65536, v[2] % 65536>>

\* the two's complement of the limbs
NegLimbs(l) ==
    LET c4 == (65535 - l[4]) + 1
        c3 == (65535 - l[3]) + (c4 \div 65536)
        c2 == (65535 - l[2]) + (c3 \div 65536)
        c1 == (65535 - l[1]) + (c2 \div 65536)
    IN <<c1 % 65536, c2 % 65536, c3 % 65536, c4 % 65536>>

\* the signed 32-bit value of two limbs
Signed32(h, l) == IF h >= 32768 THEN (h - 65536) * 65536 + l ELSE h * 65536 + l

Word64(l) == <<Signed32(l[1], l[2]), Signed32(l[3], l[4])>>

\* limbs divided by ten: the quotient and the remainder
DivTen(l) ==
    LET r1 == l[1] % 10
        x2 == r1 * 65536 + l[2]
        x3 == (x2 % 10) * 65536 + l[3]
        x4 == (x3 % 10) * 65536 + l[4]
    IN [q |-> <<l[1] \div 10, x2 \div 10, x3 \div 10, x4 \div 10>>, r |-> x4 % 10]

RECURSIVE Digits(_)
Digits(l) ==
    IF l = <<0, 0, 0, 0>> THEN <<>>
    ELSE LET d == DivTen(l) IN Append(Digits(d.q), 48 + d.r)

\* strconv.FormatInt(n, 10), n an int64
FormatInt(v) ==
    IF v = <<0, 0>> THEN <<48>>
    ELSE IF v[1] < 0 THEN <<45>> \o Digits(NegLimbs(Limbs(v)))
    ELSE Digits(Limbs(v))

\* strconv.FormatUint(n, 10), n a uint64 below 2^63
FormatUint(v) == IF v = <<0, 0>> THEN <<48>> ELSE Digits(Limbs(v))

\* the conversions int64(n) and uint64(n) of an integer of at most 32 bits
Int64(n) == <<IF n < 0 THEN -1 ELSE 0, n>>

\* limbs times ten plus a digit; over is set when the result passes 2^64
MulTenAdd(l, d) ==
    LET x4 == l[4] * 10 + d
        x3 == l[3] * 10 + (x4 \div 65536)
        x2 == l[2] * 10 + (x3 \div 65536)
        x1 == l[1] * 10 + (x2 \div 65536)
    IN [l |-> <<x1 % 65536, x2 % 65536, x3 % 65536, x4 % 65536>>,
        over |-> x1 >= 65536]

\* the magnitude of a string of decimal digits
RECURSIVE Magnitude(_, _)
Magnitude(s, acc) ==
    IF acc.err # "nil" \/ s = <<>> THEN acc
    ELSE IF s[1] < 48 \/ s[1] > 57 THEN [acc EXCEPT !.err = "invalid syntax"]
    ELSE LET m == MulTenAdd(acc.l, s[1] - 48) IN
         IF m.over THEN Magnitude(Tail(s), [acc EXCEPT !.over = TRUE])
         ELSE Magnitude(Tail(s), [acc EXCEPT !.l = m.l])

\* a range check that lets the magnitude 2^(bitSize-1) pass whatever the sign
FitsSignedInclusive(l, bitSize, orEqual) ==
    LET top == CASE bitSize = 64 -> l[1]
                 [] bitSize = 32 -> l[3]
                 [] bitSize = 16 -> l[4]
                 [] bitSize = 8 -> l[4]
        high == CASE bitSize = 64 -> <<>>
                  [] bitSize = 32 -> <<l[1], l[2]>>
                  [] OTHER -> <<l[1], l[2], l[3]>>
        low == CASE bitSize = 64 -> <<l[2], l[3], l[4]>>
                 [] bitSize = 32 -> <<l[4]>>
                 [] OTHER -> <<>>
        half == IF bitSize = 8 THEN 128 ELSE 32768
    IN /\ \A i \in DOMAIN high : high[i] = 0
       /\ \/ top < half
          \/ top = half /\ \A i \in DOMAIN low : low[i] = 0

\* the magnitude l is below 2^(bitSize-1), or equal to it when that is allowed
FitsSigned(l, bitSize, orEqual) ==
    LET top == CASE bitSize = 64 -> l[1]
                 [] bitSize = 32 -> l[3]
                 [] bitSize = 16 -> l[4]
                 [] bitSize = 8 -> l[4]
        high == CASE bitSize = 64 -> <<>>
                  [] bitSize = 32 -> <<l[1], l[2]>>
                  [] OTHER -> <<l[1], l[2], l[3]>>
        low == CASE bitSize = 64 -> <<l[2], l[3], l[4]>>
                 [] bitSize = 32 -> <<l[4]>>
                 [] OTHER -> <<>>
        half == IF bitSize = 8 THEN 128 ELSE 32768
    IN /\ \A i \in DOMAIN high : high[i] = 0
       /\ \/ top < half
          \/ orEqual /\ top = half /\ \A i \in DOMAIN low : low[i] = 0

\* strconv.ParseInt(s, 10, bitSize): the error and the int64
ParseInt(s, bitSize) ==
    LET neg == s # <<>> /\ s[1] = 45
        body == IF s # <<>> /\ s[1] \in {43, 45} THEN Tail(s) ELSE s
        m == Magnitude(body, [err |-> "nil", l |-> <<0, 0, 0, 0>>, over |-> FALSE])
    IN
    IF body = <<>> THEN [err |-> "invalid syntax", val |-> <<0, 0>>]
    ELSE IF m.err # "nil" THEN [err |-> m.err, val |-> <<0, 0>>]
    ELSE IF m.over \/ ~FitsSigned(m.l, bitSize, neg)
    THEN [err |-> "value out of range", val |-> <<0, 0>>]
    ELSE [err |-> "nil", val |-> Word64(IF neg THEN NegLimbs(m.l) ELSE m.l)]

\* strconv.ParseUint(s, 10, 8): the error and the byte
ParseUint8(s) ==
    LET m == Magnitude(s, [err |-> "nil", l |-> <<0, 0, 0, 0>>, over |-> FALSE]) IN
    IF s = <<>> THEN [err |-> "invalid syntax", val |-> 0]
    ELSE IF m.err # "nil" THEN [err |-> m.err, val |-> 0]
    ELSE IF m.over \/ m.l[1] # 0 \/ m.l[2] # 0 \/ m.l[3] # 0 \/ m.l[4] > 255
    THEN [err |-> "value out of range", val |-> 0]
    ELSE [err |-> "nil", val |-> m.l[4]]

(***************************************************************************)
(* strconv on floats.  A float is its bits; FloatTable holds the decimal    *)
(* texts of the finite floats the model uses: the shortest text that reads  *)
(* back as the float32 f32, and as the float64 f64.                         *)
(***************************************************************************)
NaNText == <<78, 97, 78>>

FloatTable ==
    {[text |-> <<49>>, f32 |-> 1065353216, f64 |-> <<1072693248, 0>>],
     [text |-> <<48, 46, 49>>, f32 |-> 1036831949, f64 |-> <<1069128089, -1717986918>>]}

IsNaN32(b) == (b \div 8388608) % 256 = 255 /\ b % 8388608 # 0
IsNaN64(v) == (v[1] \div 1048576) % 2048 = 2047 /\ (v[1] % 1048576 # 0 \/ v[2] # 0)

\* strconv.FormatFloat(float64(x), 'g', -1, 32), x a float32
FormatFloat32(b) ==
    IF IsNaN32(b) THEN NaNText ELSE (CHOOSE e \in FloatTable : e.f32 = b).text

\* strconv.FormatFloat(x, 'g', -1, 64)
FormatFloat64(v) ==
    IF IsNaN64(v) THEN NaNText ELSE (CHOOSE e \in FloatTable : e.f64 = v).text

\* float32(x) of x, err := strconv.ParseFloat(s, 32); "NaN" reads as math.NaN(),
\* whose conversion to float32 is the quiet NaN 0x7FC00000
ParseFloat32(s) ==
    IF s = NaNText THEN [err |-> "nil", val |-> 2143289344]
    ELSE IF \E e \in FloatTable : e.text = s
    THEN [err |-> "nil", val |-> (CHOOSE e \in FloatTable : e.text = s).f32]
    ELSE [err |-> "invalid syntax", val |-> 0]

\* strconv.ParseFloat(s, 64); "NaN" reads as math.NaN(), 0x7FF8000000000001
ParseFloat64(s) ==
    IF s = NaNText THEN [err |-> "nil", val |-> <<2146959360, 1>>]
    ELSE IF \E e \in FloatTable : e.text = s
    THEN [err |-> "nil", val |-> (CHOOSE e \in FloatTable : e.text = s).f64]
    ELSE [err |-> "invalid syntax", val |-> <<0, 0>>]

(***************************************************************************)
(* Marshalling (types.go:262-361, 426-514, 574-649, 861-867)                *)
(***************************************************************************)
typeNames ==
    <<<<69, 110, 100>>, <<66, 121, 116, 101>>, <<83, 104, 111, 114, 116>>,
      <<73, 110, 116>>, <<76, 111, 110, 103>>, <<70, 108, 111, 97, 116>>,
      <<68, 111, 117, 98, 108, 101>>, <<66, 121, 116, 101, 65, 114, 114, 97, 121>>,
      <<83, 116, 114, 105, 110, 103>>, <<76, 105, 115, 116>>,
      <<67, 111, 109, 112, 111, 117, 110, 100>>,
      <<73, 110, 116, 65, 114, 114, 97, 121>>,
      <<76, 111, 110, 103, 65, 114, 114, 97, 121>>>>

\* the keys "type", "name", "payload", "array" of the json structs
KeyType == <<116, 121, 112, 101>>
KeyName == <<110, 97, 109, 101>>
KeyPayload == <<112, 97, 121, 108, 111, 97, 100>>
KeyArray == <<97, 114, 114, 97, 121>>

HexDigit(d) == IF d < 10 THEN 48 + d ELSE 87 + d

\* Type.String; fmt.Sprintf("%#02x", byte(typ)) beyond the table
TypeName(typ) ==
    IF typ >= Len(typeNames)
    THEN <<48, 120>> \o (IF typ >= 16 THEN <<HexDigit(typ \div 16)>> ELSE <<>>)
                     \o <<HexDigit(typ % 16)>>
    ELSE typeNames[typ + 1]

\* json.Marshal of a Go string
marshalString(s) == JString(Runes(s))

\* Type.MarshalJSON
TypeMarshalJSON(typ) == marshalString(TypeName(typ))

\* json.Marshal of a []string
marshalStrings(ss) == JArray([i \in 1..Len(ss) |-> marshalString(ss[i])])

\* byteArray.MarshalJSON, intArray.MarshalJSON, longArray.MarshalJSON
byteArrayMarshalJSON(b) == marshalStrings([i \in 1..Len(b) |-> FormatUint(Int64(b[i]))])
intArrayMarshalJSON(a) == marshalStrings([i \in 1..Len(a) |-> FormatInt(Int64(a[i]))])
longArrayMarshalJSON(a) == marshalStrings([i \in 1..Len(a) |-> FormatInt(a[i])])

\* a failed type assertion, or reflect's Len of a nil interface: a panic
JPanic(e) == JErr(e)

\* the members of a map as encoding/json writes them: collected in the order
\* of the map iteration, then sorted by key
RECURSIVE InsertKey(_, _)
InsertKey(x, a) ==
    IF a = <<>> THEN <<x>>
    ELSE IF StrLess(x, Head(a)) THEN <<x>> \o a
    ELSE <<Head(a)>> \o InsertKey(x, Tail(a))

RECURSIVE SortKeys(_)
SortKeys(a) == IF a = <<>> THEN <<>> ELSE InsertKey(Head(a), SortKeys(Tail(a)))

\* the keys written in the order of the map iteration
mapKeysUnsorted(m, order) == MapRange(m, order)

mapKeys(m, order) == SortKeys(MapRange(m, order))

\* the JSON object written as the members vals under the keys, in that order:
\* the value read back for a key written twice is the one written last
JMembers(keys, vals) ==
    <<"object",
      [key \in {keys[i] : i \in 1..Len(keys)} |->
          vals[CHOOSE i \in 1..Len(keys) :
                  keys[i] = key /\ \A j \in (i + 1)..Len(keys) : keys[j] # key]],
      keys>>

RECURSIVE payloadMarshalJSON(_, _, _)
RECURSIVE ListMarshalJSON(_, _)
RECURSIVE CompoundMarshalJSON(_, _)
RECURSIVE TagMarshalJSON(_, _)

payloadMarshalJSON(typ, payload, order) ==
    LET k == Kind(payload)
        d == Data(payload)
        as(kind, v) == IF k = kind THEN JOk(v) ELSE JPanic("TypeAssertionError")
    IN
    CASE typ = TypeEnd -> IF payload = Nil THEN JOk(JNull) ELSE JOk(<<"reflect", payload>>)
      [] typ = TypeByte -> as("int8", marshalString(FormatInt(Int64(d))))
      [] typ = TypeShort -> as("int16", marshalString(FormatInt(Int64(d))))
      [] typ = TypeInt -> as("int32", marshalString(FormatInt(Int64(d))))
      [] typ = TypeLong -> as("int64", marshalString(FormatInt(d)))
      [] typ = TypeFloat -> as("float32", marshalString(FormatFloat32(d)))
      [] typ = TypeDouble -> as("float64", marshalString(FormatFloat64(d)))
      [] typ = TypeByteArray -> as("[]byte", byteArrayMarshalJSON(d))
      [] typ = TypeString -> as("string", marshalString(d))
      [] typ = TypeList ->
            IF k = "*List" THEN ListMarshalJSON(d, order) ELSE JPanic("TypeAssertionError")
      [] typ = TypeCompound ->
            IF k = "Compound" THEN CompoundMarshalJSON(d, order) ELSE JPanic("TypeAssertionError")
      [] typ = TypeIntArray -> as("[]int32", intArrayMarshalJSON(d))
      [] typ = TypeLongArray -> as("[]int64", longArrayMarshalJSON(d))
      [] OTHER -> JErr("unknown type")

ListMarshalJSON(l, order) ==
    LET k == Kind(l.Array)
        a == Data(l.Array)
        n == ListLength(l)
        strings(kind, ss) ==
            IF ~n.ok THEN JPanic("reflect.ValueError")
            ELSE IF k # kind THEN JPanic("TypeAssertionError")
            ELSE JOk(marshalStrings(ss))
        each(kind, rs) ==
            IF k # kind THEN JPanic("TypeAssertionError")
            ELSE LET c == Collect(rs) IN IF c.err # "nil" THEN c ELSE JOk(JArray(c.val))
        array ==
            CASE l.Type = TypeEnd ->
                    IF l.Array = Nil THEN JOk(JNull) ELSE JOk(<<"reflect", l.Array>>)
              [] l.Type \in {TypeByte, TypeShort, TypeInt} ->
                    strings("[]" \o ScalarKind(l.Type), [i \in 1..Len(a) |-> FormatInt(Int64(a[i]))])
              [] l.Type = TypeLong ->
                    strings("[]int64", [i \in 1..Len(a) |-> FormatInt(a[i])])
              [] l.Type = TypeFloat ->
                    strings("[]float32", [i \in 1..Len(a) |-> FormatFloat32(a[i])])
              [] l.Type = TypeDouble ->
                    strings("[]float64", [i \in 1..Len(a) |-> FormatFloat64(a[i])])
              [] l.Type = TypeByteArray ->
                    IF ~n.ok THEN JPanic("reflect.ValueError")
                    ELSE each("[][]byte", [i \in 1..Len(a) |-> JOk(byteArrayMarshalJSON(a[i]))])
              [] l.Type = TypeString ->
                    each("[]string", [i \in 1..Len(a) |-> JOk(marshalString(a[i]))])
              [] l.Type = TypeList ->
                    each("[]*List", [i \in 1..Len(a) |-> ListMarshalJSON(a[i], order)])
              [] l.Type = TypeCompound ->
                    each("[]Compound", [i \in 1..Len(a) |-> CompoundMarshalJSON(a[i], order)])
              [] l.Type = TypeIntArray ->
                    IF ~n.ok THEN JPanic("reflect.ValueError")
                    ELSE each("[][]int32", [i \in 1..Len(a) |-> JOk(intArrayMarshalJSON(a[i]))])
              [] l.Type = TypeLongArray ->
                    IF ~n.ok THEN JPanic("reflect.ValueError")
                    ELSE each("[][]int64", [i \in 1..Len(a) |-> JOk(longArrayMarshalJSON(a[i]))])
              [] OTHER -> JErr("unknown type")
    IN
    IF array.err # "nil" THEN array
    ELSE JOk(JObject((KeyType :> TypeMarshalJSON(l.Type)) @@ (KeyArray :> array.val)))

\* json.Marshal of a Compound, a map[string]*Tag whose iteration delivers its
\* keys in the order they have in order
CompoundMarshalJSON(m, order) ==
    LET names == mapKeys(m, order)
        c == Collect([i \in 1..Len(names) |-> TagMarshalJSON(m[names[i]], order)])
    IN
    IF c.err # "nil" THEN c
    ELSE JOk(JMembers([i \in 1..Len(names) |-> Runes(names[i])], c.val))

TagMarshalJSON(tag, order) ==
    LET payload == payloadMarshalJSON(tag.Type, tag.Payload, order) IN
    IF payload.err # "nil" THEN payload
    ELSE JOk(JObject((KeyType :> TypeMarshalJSON(tag.Type))
                     @@ (KeyPayload :> payload.val)))

\* NamedTag.MarshalJSON
NamedTagMarshalJSON(tag, order) ==
    LET payload == payloadMarshalJSON(tag.Type, tag.Payload, order) IN
    IF payload.err # "nil" THEN payload
    ELSE JOk(JObject((KeyType :> TypeMarshalJSON(tag.Type))
                     @@ (KeyName :> marshalString(tag.Name))
                     @@ (KeyPayload :> payload.val)))

(***************************************************************************)
(* Unmarshalling (types.go:273-323, 363-424, 436-514, 651-792, 869-883)     *)
(***************************************************************************)
UOk(v) == [err |-> "nil", val |-> v]
UErr(e) == [err |-> e, val |-> Nil]

\* what json.Unmarshal answers to a value it cannot store in the target
Mismatch(v) ==
    IF v = JAbsent THEN UErr("unexpected end of JSON input")
    ELSE UErr("json: cannot unmarshal")

\* an unmarshal that takes a JSON number as the string of its text
unmarshalStringOrNumber(v) ==
    CASE Kind(v) \in {"string", "number"} -> UOk(Utf8(Data(v)))
      [] Kind(v) = "null" -> UOk(<<>>)
      [] OTHER -> Mismatch(v)

\* json.Unmarshal(data, &s), s a string: null leaves s empty
unmarshalString(v) ==
    CASE Kind(v) = "string" -> UOk(Utf8(Data(v)))
      [] Kind(v) = "null" -> UOk(<<>>)
      [] OTHER -> Mismatch(v)

\* the elements of the array json.Unmarshal stores in a slice: null leaves
\* the slice nil
elements(v) ==
    CASE Kind(v) = "array" -> UOk(Data(v))
      [] Kind(v) = "null" -> UOk(<<>>)
      [] OTHER -> Mismatch(v)

\* the values of the results rs as a Go value of the kind, or the first error
Slice(kind, rs) ==
    LET boxed(c) == IF c.err # "nil" THEN UErr(c.err) ELSE UOk(V(kind, c.val))
    IN boxed(Collect(rs))

\* json.Unmarshal(data, &ss), ss a []string
unmarshalStrings(v) ==
    LET all(c) == IF c.err # "nil" THEN UErr(c.err) ELSE UOk(c.val)
        each(e) ==
            IF e.err # "nil" THEN e
            ELSE all(Collect([i \in 1..Len(e.val) |-> unmarshalString(e.val[i])]))
    IN each(elements(v))

\* the fields of the struct json.Unmarshal fills from an object; null leaves
\* the struct zero
IsStruct(v) == Kind(v) \in {"object", "null"}
Field(v, key) ==
    IF Kind(v) = "object" /\ key \in DOMAIN Data(v) THEN Data(v)[key] ELSE JAbsent

\* Type.UnmarshalJSON
TypeUnmarshalJSON(v) ==
    LET lookup(s) ==
            IF s.err # "nil" THEN s
            ELSE IF \E i \in 1..Len(typeNames) : typeNames[i] = s.val
            THEN UOk((CHOOSE i \in 1..Len(typeNames) : typeNames[i] = s.val) - 1)
            ELSE UErr("unknown type")
    IN lookup(unmarshalString(v))

\* the Type field of a json struct: TypeEnd when the object has no such key
FieldType(v) ==
    IF Field(v, KeyType) = JAbsent THEN UOk(TypeEnd)
    ELSE TypeUnmarshalJSON(Field(v, KeyType))

\* the Name field of jsonNamedTag
FieldName(v) ==
    IF Field(v, KeyName) = JAbsent THEN UOk(<<>>)
    ELSE unmarshalString(Field(v, KeyName))

\* strconv.ParseInt / ParseFloat of s for the scalar type, converted to it
parseScalar(typ, s) ==
    LET low(r) == IF r.err # "nil" THEN UErr(r.err) ELSE UOk(r.val[2])
        same(r) == IF r.err # "nil" THEN UErr(r.err) ELSE UOk(r.val)
    IN CASE typ = TypeByte -> low(ParseInt(s, 8))
         [] typ = TypeShort -> low(ParseInt(s, 16))
         [] typ = TypeInt -> low(ParseInt(s, 32))
         [] typ = TypeLong -> same(ParseInt(s, 64))
         [] typ = TypeFloat -> same(ParseFloat32(s))
         [] typ = TypeDouble -> same(ParseFloat64(s))

\* byteArray.UnmarshalJSON, intArray.UnmarshalJSON, longArray.UnmarshalJSON
byteArrayUnmarshalJSON(v) ==
    LET parse(ss) ==
            IF ss.err # "nil" THEN ss
            ELSE Slice("[]byte", [i \in 1..Len(ss.val) |-> ParseUint8(ss.val[i])])
    IN parse(unmarshalStrings(v))

intArrayUnmarshalJSON(v) ==
    LET parse(ss) ==
            IF ss.err # "nil" THEN ss
            ELSE Slice("[]int32",
                       [i \in 1..Len(ss.val) |-> parseScalar(TypeInt, ss.val[i])])
    IN parse(unmarshalStrings(v))

longArrayUnmarshalJSON(v) ==
    LET parse(ss) ==
            IF ss.err # "nil" THEN ss
            ELSE Slice("[]int64",
                       [i \in 1..Len(ss.val) |-> parseScalar(TypeLong, ss.val[i])])
    IN parse(unmarshalStrings(v))

\* json.Unmarshal(data, &x), x an interface{}: null leaves it nil
unmarshalInterface(v) ==
    CASE v = JAbsent -> Mismatch(v)
      [] v = JNull -> UOk(Nil)
      [] OTHER -> UOk(V("interface{}", v))

\* the nil pointers json.Unmarshal stores for a null
NilList == [Type |-> TypeEnd, Array |-> V("nil *List", <<>>)]
NilTag == [Type |-> TypeEnd, Payload |-> V("nil *Tag", <<>>)]

\* the Data of the values of the results rs, or the first error
Datas(kind, rs) ==
    LET boxed(c) ==
            IF c.err # "nil" THEN UErr(c.err)
            ELSE UOk(V(kind, [i \in 1..Len(c.val) |-> Data(c.val[i])]))
    IN boxed(Collect(rs))

RECURSIVE payloadUnmarshalJSON(_, _)
RECURSIVE ListUnmarshalJSON(_)
RECURSIVE CompoundUnmarshalJSON(_)
RECURSIVE TagUnmarshalJSON(_)

payloadUnmarshalJSON(typ, data) ==
    LET boxed(kind, r) == IF r.err # "nil" THEN r ELSE UOk(V(kind, r.val))
        scalar(s) ==
            IF s.err # "nil" THEN s
            ELSE boxed(ScalarKind(typ), parseScalar(typ, s.val))
    IN
    CASE typ = TypeEnd -> unmarshalInterface(data)
      [] typ \in TypeByte..TypeDouble -> scalar(unmarshalString(data))
      [] typ = TypeByteArray -> byteArrayUnmarshalJSON(data)
      [] typ = TypeString -> boxed("string", unmarshalString(data))
      [] typ = TypeList -> boxed("*List", ListUnmarshalJSON(data))
      [] typ = TypeCompound -> boxed("Compound", CompoundUnmarshalJSON(data))
      [] typ = TypeIntArray -> intArrayUnmarshalJSON(data)
      [] typ = TypeLongArray -> longArrayUnmarshalJSON(data)
      [] OTHER -> UErr("unknown type")

ListUnmarshalJSON(v) ==
    LET boxed(kind, r) == IF r.err # "nil" THEN r ELSE UOk(V(kind, r.val))
        scalars(t, ss) ==
            IF ss.err # "nil" THEN ss
            ELSE Slice("[]" \o ScalarKind(t),
                       [i \in 1..Len(ss.val) |-> parseScalar(t, ss.val[i])])
        each(kind, F(_), e) ==
            IF e.err # "nil" THEN e
            ELSE Slice(kind, [i \in 1..Len(e.val) |-> F(e.val[i])])
        datas(kind, F(_), e) ==
            IF e.err # "nil" THEN e
            ELSE Datas(kind, [i \in 1..Len(e.val) |-> F(e.val[i])])
        list(x) == IF x = JNull THEN UOk(NilList) ELSE ListUnmarshalJSON(x)
        array(t, raw) ==
            CASE t = TypeEnd -> unmarshalInterface(raw)
              [] t \in TypeByte..TypeDouble -> scalars(t, unmarshalStrings(raw))
              [] t = TypeByteArray ->
                    datas("[][]byte", byteArrayUnmarshalJSON, elements(raw))
              [] t = TypeString -> boxed("[]string", unmarshalStrings(raw))
              [] t = TypeList -> each("[]*List", list, elements(raw))
              [] t = TypeCompound ->
                    each("[]Compound", CompoundUnmarshalJSON, elements(raw))
              [] t = TypeIntArray ->
                    datas("[][]int32", intArrayUnmarshalJSON, elements(raw))
              [] t = TypeLongArray ->
                    datas("[][]int64", longArrayUnmarshalJSON, elements(raw))
              [] OTHER -> UErr("unknown type")
        listed(t, a) ==
            IF a.err # "nil" THEN a ELSE UOk([Type |-> t, Array |-> a.val])
        typed(typ) ==
            IF typ.err # "nil" THEN typ
            ELSE listed(typ.val, array(typ.val, Field(v, KeyArray)))
    IN
    IF ~IsStruct(v) THEN Mismatch(v) ELSE typed(FieldType(v))

\* json.Unmarshal(data, &m), m a Compound: null leaves the map nil
CompoundUnmarshalJSON(v) ==
    LET tag(x) == IF x = JNull THEN UOk(NilTag) ELSE TagUnmarshalJSON(x)
        map(keys, c) ==
            IF c.err # "nil" THEN UErr(c.err)
            ELSE UOk([n \in {Utf8(keys[i]) : i \in 1..Len(keys)} |->
                        c.val[CHOOSE i \in 1..Len(keys) : Utf8(keys[i]) = n]])
        members(keys) ==
            map(keys, Collect([i \in 1..Len(keys) |-> tag(Data(v)[keys[i]])]))
    IN
    IF Kind(v) = "null" THEN UOk(<<>>)
    ELSE IF Kind(v) # "object" THEN Mismatch(v)
    ELSE members(SetToSeq(DOMAIN Data(v)))

TagUnmarshalJSON(v) ==
    LET tagged(t, payload) ==
            IF payload.err # "nil" THEN payload
            ELSE UOk([Type |-> t, Payload |-> payload.val])
        typed(typ) ==
            IF typ.err # "nil" THEN typ
            ELSE tagged(typ.val, payloadUnmarshalJSON(typ.val, Field(v, KeyPayload)))
    IN
    IF ~IsStruct(v) THEN Mismatch(v) ELSE typed(FieldType(v))

\* NamedTag.UnmarshalJSON
NamedTagUnmarshalJSON(v) ==
    LET tagged(t, name, payload) ==
            IF payload.err # "nil" THEN payload
            ELSE UOk([Type |-> t, Name |-> name, Payload |-> payload.val])
        named(t, name) ==
            IF name.err # "nil" THEN name
            ELSE tagged(t, name.val, payloadUnmarshalJSON(t, Field(v, KeyPayload)))
        typed(typ) ==
            IF typ.err # "nil" THEN typ ELSE named(typ.val, FieldName(v))
    IN
    IF ~IsStruct(v) THEN Mismatch(v) ELSE typed(FieldType(v))

(***************************************************************************)
(* The trees handed to the codec                                            *)
(***************************************************************************)
Tag(typ, payload) == [Type |-> typ, Payload |-> payload]
Named(name, tag) == [Type |-> tag.Type, Name |-> name, Payload |-> tag.Payload]
List(typ, array) == V("*List", [Type |-> typ, Array |-> array])

\* "root" "health" "name" "Steve"
StrRoot == <<114, 111, 111, 116>>
StrHealth == <<104, 101, 97, 108, 116, 104>>
StrName == <<110, 97, 109, 101>>
StrSteve == <<83, 116, 101, 118, 101>>

SteveTag ==
    Named(StrRoot,
          Tag(TypeCompound,
              V("Compound",
                (StrHealth :> Tag(TypeShort, V("int16", 20)))
                @@ (StrName :> Tag(TypeString, V("string", StrSteve))))))

SteveData ==
    <<10, 0, 4, 114, 111, 111, 116,
      2, 0, 6, 104, 101, 97, 108, 116, 104, 0, 20,
      8, 0, 4, 110, 97, 109, 101, 0, 5, 83, 116, 101, 118, 101,
      0>>

(***************************************************************************)
(* Bounds of the model                                                      *)
(***************************************************************************)
\* most elements of a generated array, string or list
MaxLen == 2
\* most members of a generated compound
MaxMembers == 2

SeqsUpTo(S, n) == UNION {[1..k -> S] : k \in 0..n}

NameSet == {<<97>>, <<66>>, <<97, 98>>}
\* the names of the compounds that hold compounds
NestedNames == {<<97>>, <<66>>}
RootNames == {<<>>, <<97, 98>>}

ByteVals == {-128, 20}
ShortVals == {20, -2}
IntVals == {16909060, -2}
LongVals == {<<0, 1>>, <<-1, -2>>}
\* 0.1 and a NaN, as float32 and as float64 bits
FloatVals == {1036831949, 2143289345}
DoubleVals == {<<1069128089, -1717986918>>, <<2146959360, 2>>}

Scalars ==
    {Tag(TypeByte, V("int8", n)) : n \in ByteVals}
    \cup {Tag(TypeShort, V("int16", n)) : n \in ShortVals}
    \cup {Tag(TypeInt, V("int32", n)) : n \in IntVals}
    \cup {Tag(TypeLong, V("int64", n)) : n \in LongVals}
    \cup {Tag(TypeFloat, V("float32", n)) : n \in FloatVals}
    \cup {Tag(TypeDouble, V("float64", n)) : n \in DoubleVals}

Arrays ==
    {Tag(TypeByteArray, V("[]byte", a)) : a \in SeqsUpTo({255, 0}, MaxLen)}
    \cup {Tag(TypeString, V("string", a)) : a \in SeqsUpTo({97, 255}, MaxLen)}
    \cup {Tag(TypeIntArray, V("[]int32", a)) : a \in SeqsUpTo(IntVals, MaxLen)}
    \cup {Tag(TypeLongArray, V("[]int64", a)) : a \in SeqsUpTo(LongVals, MaxLen)}

ScalarLists ==
    {Tag(TypeList, List(TypeByte, V("[]int8", a))) : a \in SeqsUpTo(ByteVals, MaxLen)}
    \cup {Tag(TypeList, List(TypeShort, V("[]int16", a))) : a \in SeqsUpTo(ShortVals, MaxLen)}
    \cup {Tag(TypeList, List(TypeInt, V("[]int32", a))) : a \in SeqsUpTo(IntVals, MaxLen)}
    \cup {Tag(TypeList, List(TypeLong, V("[]int64", a))) : a \in SeqsUpTo(LongVals, MaxLen)}
    \cup {Tag(TypeList, List(TypeFloat, V("[]float32", a))) : a \in SeqsUpTo(FloatVals, MaxLen)}
    \cup {Tag(TypeList, List(TypeDouble, V("[]float64", a))) : a \in SeqsUpTo(DoubleVals, MaxLen)}

ArrayLists ==
    {Tag(TypeList, List(TypeByteArray, V("[][]byte", a))) :
        a \in SeqsUpTo({<<>>, <<255>>}, MaxLen)}
    \cup {Tag(TypeList, List(TypeString, V("[]string", a))) :
        a \in SeqsUpTo({<<>>, <<97>>}, MaxLen)}
    \cup {Tag(TypeList, List(TypeIntArray, V("[][]int32", a))) :
        a \in SeqsUpTo({<<>>, <<-2>>}, MaxLen)}
    \cup {Tag(TypeList, List(TypeLongArray, V("[][]int64", a))) :
        a \in SeqsUpTo({<<>>, << <<0, 1>> >>}, MaxLen)}

EndList == [Type |-> TypeEnd, Array |-> Nil]

\* the members the generated compounds are built from
Members ==
    {Tag(TypeByte, V("int8", 20)), Tag(TypeShort, V("int16", -2)),
     Tag(TypeString, V("string", <<97>>)), Tag(TypeByteArray, V("[]byte", <<255, 0>>)),
     Tag(TypeList, List(TypeInt, V("[]int32", <<16909060>>)))}

CompoundsOf(names, M) ==
    UNION {[ks -> M] : ks \in {x \in SUBSET names : Cardinality(x) <= MaxMembers}}

cA == (<<97>> :> Tag(TypeByte, V("int8", 20))) @@ (<<66>> :> Tag(TypeShort, V("int16", -2)))
cB == (<<97>> :> Tag(TypeString, V("string", <<97>>)))

lA == [Type |-> TypeByte, Array |-> V("[]int8", <<20>>)]
lC == [Type |-> TypeCompound, Array |-> V("[]Compound", <<cA>>)]
lL == [Type |-> TypeList, Array |-> V("[]*List", <<lC, EndList>>)]

NestedLists ==
    {Tag(TypeList, List(TypeCompound, V("[]Compound", a))) : a \in SeqsUpTo({cA, cB}, MaxLen)}
    \cup {Tag(TypeList, List(TypeList, V("[]*List", a))) : a \in SeqsUpTo({lA, EndList}, MaxLen)}
    \cup {Tag(TypeList, List(TypeList, V("[]*List", <<lC>>))),
          Tag(TypeList, List(TypeList, V("[]*List", <<lL>>)))}

NestedMembers ==
    {Tag(TypeCompound, V("Compound", cA)),
     Tag(TypeList, List(TypeCompound, V("[]Compound", <<cA, cB>>))),
     Tag(TypeList, List(TypeList, V("[]*List", <<lC, EndList>>))),
     Tag(TypeByte, V("int8", -128))}

Compounds ==
    {Tag(TypeCompound, V("Compound", m)) : m \in CompoundsOf(NameSet, Members)}
    \cup {Tag(TypeCompound, V("Compound", m)) : m \in CompoundsOf(NestedNames, NestedMembers)}
    \cup {Tag(TypeCompound,
              V("Compound", <<97>> :> Tag(TypeCompound, V("Compound", m)))) :
            m \in CompoundsOf(NestedNames, {Tag(TypeCompound, V("Compound", cA))})}

\* the trees that satisfy the data model
ValidTags ==
    Scalars \cup Arrays \cup ScalarLists \cup ArrayLists
    \cup {Tag(TypeList, V("*List", EndList))} \cup NestedLists \cup Compounds

\* one value of every dynamic kind a payload or a List.Array can hold
PayloadReps ==
    {V("int8", 20), V("int16", -2), V("int32", 16909060), V("int64", <<-1, -2>>),
     V("float32", 1065353216), V("float64", <<1072693248, 0>>),
     V("[]byte", <<255, 0>>), V("string", <<97>>), V("[]int32", <<-2>>),
     V("[]int64", << <<0, 1>> >>), V("Compound", cB), List(TypeByte, V("[]int8", <<20>>)),
     Nil}

ArrayReps ==
    {V("[]int8", <<20>>), V("[]int16", <<-2>>), V("[]int32", <<16909060>>),
     V("[]int64", << <<-1, -2>> >>), V("[]float32", <<1065353216>>),
     V("[]float64", << <<1072693248, 0>> >>), V("[][]byte", << <<255>> >>),
     V("[]string", << <<97>> >>), V("[]*List", <<lA>>), V("[]Compound", <<cB>>),
     V("[][]int32", << <<-2>> >>), V("[][]int64", << << <<0, 1>> >> >>), Nil}

\* caller-built tags of every type with a payload of every kind
BuiltTags ==
    {Tag(t, p) : t \in 1..13, p \in PayloadReps}
    \cup {Tag(TypeList, List(t, a)) : t \in 0..13, a \in ArrayReps}
    \cup {Tag(TypeCompound, V("Compound", <<97>> :> Tag(TypeList, List(TypeEnd, V("[]int8", <<20>>))))),
          Tag(TypeList, List(TypeList, V("[]*List",
                <<[Type |-> TypeShort, Array |-> V("[]int64", << <<0, 1>> >>)]>>)))}

Trees ==
    {Named(n, t) : n \in RootNames, t \in ValidTags}
    \cup {Named(<<97>>, t) : t \in BuiltTags}
    \cup {SteveTag, Named(<<>>, Tag(TypeEnd, Nil))}

(***************************************************************************)
(* The data model of a tree: every payload has the kind its Type declares,  *)
(* lists are homogeneous, a list of End has no elements                     *)
(***************************************************************************)
PayloadKind(typ) ==
    CASE typ = TypeEnd -> "nil"
      [] typ = TypeByte -> "int8"
      [] typ = TypeShort -> "int16"
      [] typ = TypeInt -> "int32"
      [] typ = TypeLong -> "int64"
      [] typ = TypeFloat -> "float32"
      [] typ = TypeDouble -> "float64"
      [] typ = TypeByteArray -> "[]byte"
      [] typ = TypeString -> "string"
      [] typ = TypeList -> "*List"
      [] typ = TypeCompound -> "Compound"
      [] typ = TypeIntArray -> "[]int32"
      [] typ = TypeLongArray -> "[]int64"
      [] OTHER -> "none"

ArrayKind(typ) ==
    CASE typ = TypeEnd -> "nil"
      [] typ \in {TypeByteArray, TypeString, TypeList, TypeCompound,
                  TypeIntArray, TypeLongArray} -> ElementKind(typ)
      [] typ \in TypeByte..TypeDouble -> "[]" \o PayloadKind(typ)
      [] OTHER -> "none"

RECURSIVE WellTyped(_, _)
RECURSIVE WellTypedList(_)
WellTypedList(l) ==
    /\ Kind(l.Array) = ArrayKind(l.Type)
    /\ l.Type = TypeList =>
          \A i \in 1..Len(Data(l.Array)) : WellTypedList(Data(l.Array)[i])
    /\ l.Type = TypeCompound =>
          \A i \in 1..Len(Data(l.Array)) :
             \A k \in DOMAIN Data(l.Array)[i] :
                WellTyped(Data(l.Array)[i][k].Type, Data(l.Array)[i][k].Payload)

\* a named or unnamed tag of the given type and payload; End is no value kind
WellTyped(typ, payload) ==
    /\ typ \in TypeByte..TypeLongArray
    /\ Kind(payload) = PayloadKind(typ)
    /\ typ = TypeList => WellTypedList(Data(payload))
    /\ typ = TypeCompound =>
          \A k \in DOMAIN Data(payload) :
             WellTyped(Data(payload)[k].Type, Data(payload)[k].Payload)

\* the compounds of a value, one for every map iteration of its encoding
RECURSIVE Maps(_)
RECURSIVE AllMaps(_)
AllMaps(vs) == IF vs = <<>> THEN <<>> ELSE Maps(Head(vs)) \o AllMaps(Tail(vs))
Maps(v) ==
    CASE Kind(v) = "Compound" ->
            LET ks == SetToSeq(DOMAIN Data(v))
            IN <<Data(v)>> \o AllMaps([i \in 1..Len(ks) |-> Data(v)[ks[i]].Payload])
      [] Kind(v) = "*List" -> Maps(Data(v).Array)
      [] Kind(v) = "[]*List" ->
            AllMaps([i \in 1..Len(Data(v)) |-> Data(v)[i].Array])
      [] Kind(v) = "[]Compound" ->
            AllMaps([i \in 1..Len(Data(v)) |-> V("Compound", Data(v)[i])])
      [] OTHER -> <<>>

CountMaps(v) == Len(Maps(v))

AllNames(v) == UNION {DOMAIN Maps(v)[i] : i \in 1..Len(Maps(v))}

Perms(S) ==
    {p \in [1..Cardinality(S) -> S] : \A i, j \in DOMAIN p : p[i] = p[j] => i = j}

\* the orders the map iterations of one Encode call may take, each iteration
\* in an order of its own
Orders(tag) == [1..CountMaps(tag.Payload) -> Perms(AllNames(tag.Payload))]

(***************************************************************************)
(* The calling program                                                      *)
(***************************************************************************)
\* a program that runs one codec: no second Decode call, no further Decoder
\* or Encoder, no nbtjs process
NoOthers ==
    /\ dec2 = Nil /\ readers = <<>> /\ decs = <<>> /\ encs = <<>>
    /\ tables = typeNames /\ cli = Nil

Init ==
    /\ tree \in Trees
    /\ sortCompounds \in BOOLEAN
    /\ pc = "start"
    /\ enc = Nil /\ enc2 = Nil /\ wire = <<>> /\ fault = <<"none">> /\ dec = Nil
    /\ json = Nil /\ unj = Nil /\ lenIn = Nil /\ lenOut = Nil
    /\ NoOthers

\* enc.SortCompounds(sortCompounds); err := enc.Encode(tree)
EncodeTree ==
    /\ pc = "start"
    /\ \E rnd \in Orders(tree) : enc' = Encode(sortCompounds, rnd, tree)
    /\ pc' = "encoded"
    /\ UNCHANGED <<tree, sortCompounds, enc2, wire, fault, dec, json, unj, lenIn, lenOut>> /\ UNCHANGED others

\* a second encoder with the same setting encodes the same tree
EncodeAgain ==
    /\ pc = "encoded"
    /\ \E rnd \in Orders(tree) : enc2' = Encode(sortCompounds, rnd, tree)
    /\ pc' = "encoded2"
    /\ UNCHANGED <<tree, sortCompounds, enc, wire, fault, dec, json, unj, lenIn, lenOut>> /\ UNCHANGED others

\* the bytes a corrupted stream carries in place of an original byte
CorruptBytes == {0, 1, 13, 255}

DecodeWire(w, f) ==
    /\ wire' = w
    /\ fault' = f
    /\ dec' = Decode(w, 0)
    /\ pc' = "decoded"
    /\ UNCHANGED <<tree, sortCompounds, enc, enc2, json, unj, lenIn, lenOut>> /\ UNCHANGED others

\* the damaged streams are derived from the canonical encoding of a tree: the
\* sorted one, whose map iterations happened to deliver ascending names
Canonical ==
    /\ pc = "encoded" /\ enc.err = "nil" /\ sortCompounds
    /\ \A i \in 1..Len(enc.orders) :
          \A j \in 1..(Len(enc.orders[i]) - 1) :
             StrLess(enc.orders[i][j], enc.orders[i][j + 1])

\* NewDecoder(bytes.NewReader(out)).Decode() on the encoder's output
DecodeEncoded ==
    /\ pc = "encoded" /\ enc.err = "nil"
    /\ DecodeWire(enc.out, <<"none">>)

\* ... on the output with one byte replaced
DecodeCorrupt ==
    /\ Canonical
    /\ \E i \in 1..Len(enc.out), b \in CorruptBytes :
        /\ b # enc.out[i]
        /\ DecodeWire([enc.out EXCEPT ![i] = b], <<"corrupt", i, b>>)

\* ... on a proper prefix of the output
DecodeTruncated ==
    /\ Canonical
    /\ \E n \in 0..(Len(enc.out) - 1) :
        DecodeWire(SubSeq(enc.out, 1, n), <<"truncate", n>>)

\* ... on the output with one compound member repeated
DecodeDuplicated ==
    /\ Canonical
    /\ \E e \in enc.entries :
        DecodeWire(SubSeq(enc.out, 1, e[2]) \o SubSeq(enc.out, e[1], Len(enc.out)),
                   <<"duplicate", e[1], e[2]>>)

\* a second encoder with SortCompounds off encodes the tree the first one
\* encoded with SortCompounds on, and both outputs are decoded
DecodeBothModes ==
    /\ pc = "encoded" /\ enc.err = "nil" /\ sortCompounds
    /\ \E rnd \in Orders(tree) : enc2' = Encode(FALSE, rnd, tree)
    /\ dec' = Decode(enc.out, 0)
    /\ dec2' = Decode(enc2'.out, 0)
    /\ pc' = "decodedBoth"
    /\ UNCHANGED <<tree, sortCompounds, enc, wire, fault, json, unj, lenIn, lenOut>>
    /\ UNCHANGED <<readers, decs, encs, tables, cli>>

\* two of the orders of the names S: an order and its reverse
TwoPerms(S) ==
    LET p == CHOOSE q \in Perms(S) : TRUE
        n == Len(p)
    IN {p, [k \in 1..n |-> p[n + 1 - k]]}

\* two of the orders the map iterations of one Encode call may take: every
\* iteration in one order, or every iteration in the reverse of it
TwoOrders(tag) ==
    {[i \in 1..CountMaps(tag.Payload) |-> p] : p \in TwoPerms(AllNames(tag.Payload))}

\* the tag a Decode call returned is encoded by an Encoder with
\* SortCompounds(true)
EncodeDecoded ==
    /\ pc = "decoded" /\ dec.err = "nil"
    /\ \E rnd \in TwoOrders(dec.val) : enc2' = Encode(TRUE, rnd, dec.val)
    /\ pc' = "reencoded"
    /\ UNCHANGED <<tree, sortCompounds, enc, wire, fault, dec, json, unj, lenIn, lenOut>>
    /\ UNCHANGED others

\* text, err := tree.MarshalJSON(), the maps delivering their keys in the
\* order they have in order
MarshalTree ==
    /\ pc = "start"
    /\ \E order \in Perms(AllNames(tree.Payload)) :
          json' = [err |-> NamedTagMarshalJSON(tree, order).err,
                   val |-> NamedTagMarshalJSON(tree, order).val,
                   order |-> order]
    /\ pc' = "marshalled"
    /\ UNCHANGED <<tree, sortCompounds, enc, enc2, wire, fault, dec, unj, lenIn, lenOut>> /\ UNCHANGED others

\* err := new(NamedTag).UnmarshalJSON(text)
UnmarshalText ==
    /\ pc = "marshalled" /\ json.err = "nil"
    /\ unj' = NamedTagUnmarshalJSON(json.val)
    /\ pc' = "unmarshalled"
    /\ UNCHANGED <<tree, sortCompounds, enc, enc2, wire, fault, dec, json, lenIn, lenOut>> /\ UNCHANGED others

Next ==
    \/ EncodeTree
    \/ EncodeAgain
    \/ DecodeEncoded
    \/ DecodeCorrupt
    \/ DecodeTruncated
    \/ DecodeDuplicated
    \/ DecodeBothModes
    \/ EncodeDecoded
    \/ MarshalTree
    \/ UnmarshalText

Spec == Init /\ [][Next]_vars

(***************************************************************************)
(* The length fields on their own: a length-field writer is handed the      *)
(* length of a name, string, array or list of any size a Go int can hold    *)
(***************************************************************************)
\* the length fields of the format and their widths in bytes
LengthFields == {"namelen", "strlen", "balen", "ialen", "lalen", "listlen"}

FieldWidth(field) == IF field \in {"namelen", "strlen"} THEN 2 ELSE 4

LenValues ==
    {<<0, n>> : n \in {0, 1, 255, 256, 32766, 32767, 32768, 32769, 65535, 65536,
                       65537, 98303, 2147483646, 2147483647}}
    \cup {<<0, MinInt32>>, <<0, -1>>, <<1, 0>>, <<1, 1>>, <<1, 32767>>, <<MaxInt32, -1>>}

InitLen ==
    /\ tree = Named(<<>>, Tag(TypeEnd, Nil))
    /\ sortCompounds = FALSE
    /\ pc = "len"
    /\ enc = Nil /\ enc2 = Nil /\ wire = <<>> /\ fault = <<"none">> /\ dec = Nil
    /\ json = Nil /\ unj = Nil /\ lenOut = Nil
    /\ NoOthers
    /\ lenIn \in [field : LengthFields, length : LenValues]

\* writeString (its length field) on a name or string, writeLength on an
\* array or list, of lenIn.length elements
WriteLen ==
    /\ pc = "len"
    /\ lenOut' = IF lenIn.field \in {"namelen", "strlen"}
                 THEN writeStringLength(NewEncoder(FALSE, <<>>), lenIn.length, lenIn.field)
                 ELSE writeLength(NewEncoder(FALSE, <<>>), lenIn.length, lenIn.field)
    /\ pc' = "lenDone"
    /\ UNCHANGED <<tree, sortCompounds, enc, enc2, wire, fault, dec, json, unj, lenIn>> /\ UNCHANGED others

NextLen == WriteLen

SpecLen == InitLen /\ [][NextLen]_vars

(***************************************************************************)
(* JSON texts handed to NamedTag.UnmarshalJSON: tags whose payloads hold    *)
(* the texts at the edges of the integer ranges and texts that are no       *)
(* numbers, type names in and outside the table, lists of End, objects      *)
(* without a type, alone and inside lists and compounds                     *)
(***************************************************************************)
\* the decimal texts of -2^63-1, -2^63, -2^31-1, -2^31, -32769, -32768, -129,
\* -128, -1, 0, 20, 127, 128, 32767, 32768, 2^31-1, 2^31, 2^63-1 and 2^63 in
\* ascending order, with the int64 of those that have one
NumberTable ==
    {[text |-> <<45, 57, 50, 50, 51, 51, 55, 50, 48, 51, 54, 56, 53, 52, 55, 55, 53, 56, 48, 57>>,
      rank |-> 1, val |-> <<0, 0>>],
     [text |-> <<45, 57, 50, 50, 51, 51, 55, 50, 48, 51, 54, 56, 53, 52, 55, 55, 53, 56, 48, 56>>,
      rank |-> 2, val |-> <<MinInt32, 0>>],
     [text |-> <<45, 50, 49, 52, 55, 52, 56, 51, 54, 52, 57>>,
      rank |-> 3, val |-> <<-1, 2147483647>>],
     [text |-> <<45, 50, 49, 52, 55, 52, 56, 51, 54, 52, 56>>,
      rank |-> 4, val |-> <<-1, MinInt32>>],
     [text |-> <<45, 51, 50, 55, 54, 57>>,
      rank |-> 5, val |-> <<-1, -32769>>],
     [text |-> <<45, 51, 50, 55, 54, 56>>,
      rank |-> 6, val |-> <<-1, -32768>>],
     [text |-> <<45, 49, 50, 57>>,
      rank |-> 7, val |-> <<-1, -129>>],
     [text |-> <<45, 49, 50, 56>>,
      rank |-> 8, val |-> <<-1, -128>>],
     [text |-> <<45, 49>>,
      rank |-> 9, val |-> <<-1, -1>>],
     [text |-> <<48>>,
      rank |-> 10, val |-> <<0, 0>>],
     [text |-> <<50, 48>>,
      rank |-> 11, val |-> <<0, 20>>],
     [text |-> <<49, 50, 55>>,
      rank |-> 12, val |-> <<0, 127>>],
     [text |-> <<49, 50, 56>>,
      rank |-> 13, val |-> <<0, 128>>],
     [text |-> <<51, 50, 55, 54, 55>>,
      rank |-> 14, val |-> <<0, 32767>>],
     [text |-> <<51, 50, 55, 54, 56>>,
      rank |-> 15, val |-> <<0, 32768>>],
     [text |-> <<50, 49, 52, 55, 52, 56, 51, 54, 52, 55>>,
      rank |-> 16, val |-> <<0, 2147483647>>],
     [text |-> <<50, 49, 52, 55, 52, 56, 51, 54, 52, 56>>,
      rank |-> 17, val |-> <<0, MinInt32>>],
     [text |-> <<57, 50, 50, 51, 51, 55, 50, 48, 51, 54, 56, 53, 52, 55, 55, 53, 56, 48, 55>>,
      rank |-> 18, val |-> <<2147483647, -1>>],
     [text |-> <<57, 50, 50, 51, 51, 55, 50, 48, 51, 54, 56, 53, 52, 55, 55, 53, 56, 48, 56>>,
      rank |-> 19, val |-> <<0, 0>>]}

\* "", "abc", "1.5", "0x10", "1e2", " 1", "12a", "-", "1_0"
BadTexts == {<<>>, <<97, 98, 99>>, <<49, 46, 53>>, <<48, 120, 49, 48>>, <<49, 101, 50>>, <<32, 49>>, <<49, 50, 97>>, <<45>>, <<49, 95, 48>>}

NumberTexts == {e.text : e \in NumberTable} \cup {<<43, 49, 50, 55>>}

\* a JSON number, kept as its text
JNumber(text) == <<"number", text>>

NamedJ(typ, name, payload) ==
    JObject((KeyType :> typ) @@ (KeyName :> name) @@ (KeyPayload :> payload))
TagJ(typ, payload) == JObject((KeyType :> typ) @@ (KeyPayload :> payload))
ListJ(typ, array) == JObject((KeyType :> typ) @@ (KeyArray :> array))
TypeJ(typ) == JString(typeNames[typ + 1])
NameJ == JString(<<97>>)

\* a payload json.Unmarshal accepts for the type
GoodPayload(typ) ==
    CASE typ = TypeEnd -> JNull
      [] typ \in TypeByte..TypeDouble -> JString(<<49>>)
      [] typ \in {TypeByteArray, TypeIntArray, TypeLongArray} -> JArray(<<JString(<<49>>)>>)
      [] typ = TypeString -> JString(<<97>>)
      [] typ = TypeList -> ListJ(TypeJ(TypeByte), JArray(<<JString(<<49>>)>>))
      [] typ = TypeCompound -> JObject(<<97>> :> TagJ(TypeJ(TypeByte), JString(<<49>>)))

\* "byte", "BYTE", "Bool", "", "0x0d", "Byte ", "TAG_Byte"
BadTypeNames ==
    {<<98, 121, 116, 101>>, <<66, 89, 84, 69>>, <<66, 111, 111, 108>>, <<>>,
     <<48, 120, 48, 100>>, <<66, 121, 116, 101, 32>>,
     <<84, 65, 71, 95, 66, 121, 116, 101>>}

ScalarPayloads ==
    {JString(t) : t \in NumberTexts \cup BadTexts}
    \cup {JNumber(<<49>>), JNumber(<<49, 50, 56>>), JNull, JArray(<<JString(<<49>>)>>)}

FloatPayloads ==
    {JString(t) : t \in {<<49>>, <<48, 46, 49>>, NaNText, <<>>, <<97, 98, 99>>}}
    \cup {JNumber(<<49>>), JNull}

\* the payloads and types of the tags the inputs are built from
TagInputs ==
    {<<TypeJ(t), p>> : t \in TypeByte..TypeLong, p \in ScalarPayloads}
    \cup {<<TypeJ(t), p>> : t \in {TypeFloat, TypeDouble}, p \in FloatPayloads}
    \cup {<<TypeJ(TypeList), ListJ(TypeJ(t), JArray(<<p>>))>> :
            t \in TypeByte..TypeLong, p \in ScalarPayloads}
    \cup {<<TypeJ(t), JArray(<<p>>)>> :
            t \in {TypeByteArray, TypeIntArray, TypeLongArray},
            p \in {JString(<<49>>), JString(<<45, 49>>), JString(<<50, 53, 53>>),
                   JString(<<97>>), JNumber(<<49>>)}}
    \cup {<<TypeJ(t), GoodPayload(t)>> : t \in TypeEnd..TypeLongArray}
    \cup {<<JString(n), GoodPayload(TypeByte)>> : n \in BadTypeNames}
    \cup {<<JNull, JNull>>, <<JNumber(<<49>>), GoodPayload(TypeByte)>>}
    \cup {<<TypeJ(TypeList), ListJ(t, GoodPayload(TypeByteArray))>> :
            t \in {JString(n) : n \in BadTypeNames} \cup {TypeJ(TypeByte)}}
    \cup {<<TypeJ(TypeList), ListJ(TypeJ(TypeEnd), a)>> :
            a \in {JNull, JArray(<<>>), JArray(<<JString(<<49>>)>>),
                   JArray(<<JNull, JNumber(<<49>>)>>)}}

\* the tags without a type
UntypedInputs ==
    {JObject((KeyName :> NameJ) @@ (KeyPayload :> p)) :
        p \in {JNull, JString(<<49>>), JArray(<<>>), JObject(<<>>)}}
    \cup {JObject(<<>>), JObject(KeyName :> NameJ), JNull,
          NamedJ(TypeJ(TypeList), NameJ, JObject(KeyArray :> JArray(<<JString(<<49>>)>>))),
          NamedJ(TypeJ(TypeList), NameJ, JObject(KeyArray :> JNull)),
          NamedJ(TypeJ(TypeCompound), NameJ,
                 JObject(<<97>> :> JObject(KeyPayload :> JString(<<49>>))))}

\* a tag alone, as the member of a compound, and as the member of a compound
\* in a list
JSONInputs ==
    {NamedJ(x[1], NameJ, x[2]) : x \in TagInputs}
    \cup {NamedJ(TypeJ(TypeCompound), NameJ, JObject(<<97>> :> TagJ(x[1], x[2]))) :
            x \in TagInputs}
    \cup {NamedJ(TypeJ(TypeList), NameJ,
                 ListJ(TypeJ(TypeCompound),
                       JArray(<<JObject(<<>>), JObject(<<66>> :> TagJ(x[1], x[2]))>>))) :
            x \in TagInputs}
    \cup UntypedInputs

InitJSON ==
    /\ tree = Named(<<>>, Tag(TypeEnd, Nil))
    /\ sortCompounds = FALSE
    /\ pc = "text"
    /\ enc = Nil /\ enc2 = Nil /\ wire = <<>> /\ fault = <<"none">> /\ dec = Nil
    /\ unj = Nil /\ lenIn = Nil /\ lenOut = Nil
    /\ NoOthers
    /\ json \in {JOk(j) : j \in JSONInputs}

\* err := new(NamedTag).UnmarshalJSON(text)
ParseText ==
    /\ pc = "text"
    /\ unj' = NamedTagUnmarshalJSON(json.val)
    /\ pc' = "parsed"
    /\ UNCHANGED <<tree, sortCompounds, enc, enc2, wire, fault, dec, json, lenIn, lenOut>> /\ UNCHANGED others

NextJSON == ParseText

SpecJSON == InitJSON /\ [][NextJSON]_vars

(***************************************************************************)
(* Programs that run several codecs: Decoders and Encoders, each on a       *)
(* stream and a tree of its own, that take their steps in any order         *)
(***************************************************************************)
Procs == {1, 2}

\* the encoding of a tree with SortCompounds(true)
Canon(t) == Encode(TRUE, CHOOSE rnd \in Orders(t) : TRUE, t).out

ListOfCompounds == Named(<<97>>, Tag(TypeList, List(TypeCompound, V("[]Compound", <<cA, cB>>))))
ListOfLists == Named(<<>>, Tag(TypeList, List(TypeList, V("[]*List", <<lC, EndList>>))))
ListOfStrings ==
    Named(<<97>>, Tag(TypeList, List(TypeString, V("[]string", <<<<97>>, <<>>>>))))
NestedCompound ==
    Named(<<97, 98>>,
          Tag(TypeCompound,
              V("Compound", (<<97>> :> Tag(TypeCompound, V("Compound", cA)))
                            @@ (<<66>> :> Tag(TypeLong, V("int64", <<-1, -2>>))))))
EndTag == Named(<<>>, Tag(TypeEnd, Nil))

\* the documents the streams hold
Documents ==
    {SteveTag, ListOfCompounds, ListOfLists, ListOfStrings, NestedCompound, EndTag}

\* a stream: the encodings of the documents docs one after the other, with
\* the last cut bytes missing, or with the byte at the place at replaced by b
Stream(docs, cut, at, b) ==
    LET whole == Flatten([i \in 1..Len(docs) |-> Canon(docs[i])])
        kept == SubSeq(whole, 1, Len(whole) - cut)
    IN [docs |-> docs, cut |-> cut, at |-> at,
        s |-> IF at = 0 THEN kept ELSE [kept EXCEPT ![at] = b]]

\* the streams of a program that runs one Decoder: one document, two
\* documents, a document cut short, a document with one byte replaced
Streams ==
    {Stream(<<t>>, 0, 0, 0) : t \in Documents}
    \cup {Stream(<<t, u>>, 0, 0, 0) : t, u \in Documents}
    \cup UNION {{Stream(<<t>>, n, 0, 0) : n \in 1..Len(Canon(t))} : t \in Documents}
    \cup UNION {{Stream(<<t>>, 0, i, b) : i \in 1..Len(Canon(t)), b \in CorruptBytes} :
                t \in Documents}

\* the streams of the Decoders of a program that runs two: those of the
\* first Decoder, those of the second
StreamOfFirst(in) ==
    \/ in.docs = <<SteveTag, EndTag>>
    \/ in.docs = <<ListOfLists>> /\ in.cut = 0 /\ in.at = 0
    \/ in.docs = <<ListOfCompounds>> /\ in.cut = 3
    \/ in.docs = <<NestedCompound>> /\ in.at = 8 /\ in.s[8] = 255

StreamOfSecond(in) ==
    \/ in.docs = <<ListOfCompounds, SteveTag>>
    \/ in.docs = <<NestedCompound>> /\ in.cut = 0 /\ in.at = 0
    \/ in.docs = <<SteveTag>> /\ in.cut = 9
    \/ in.docs = <<ListOfStrings>> /\ in.at = 5 /\ in.s[5] = 13

\* a Decoder before NewDecoder: the stream it is to read
DecoderOn(in) ==
    [pc |-> "new", in |-> in, r |-> 0, stack |-> <<>>, ret |-> Running,
     failed |-> NoError, idle |-> 0, late |-> 0, results |-> <<>>]

\* a writer has room for all bytes, or for some of those of the encoding
Rooms(t) == {-1} \cup 0..(Len(Canon(t)) - 1)

\* an Encoder before NewEncoder: the tree it is to encode, the orders its map
\* iterations will take and the room of its writer
EncoderOn(t, rnd, room) ==
    [pc |-> "new", tree |-> t, rnd |-> rnd, room |-> room, sort |-> FALSE,
     out |-> <<>>, err |-> "nil", late |-> 0]

\* the trees of a program that runs one Encoder
EncoderTrees ==
    Documents
    \cup {Named(<<97>>, Tag(TypeByte, V("int32", 16909060))),
          Named(<<97>>, Tag(TypeList, List(TypeEnd, V("[]int8", <<20>>)))),
          Named(<<97>>, Tag(TypeCompound,
                            V("Compound", (<<97>> :> Tag(TypeString, V("[]byte", <<255>>)))
                                          @@ (<<66>> :> Tag(TypeShort, V("int16", 20))))))}

\* the Encoders of a program that runs two
EncodersOfFirst ==
    {EncoderOn(SteveTag, rnd, room) : rnd \in Orders(SteveTag), room \in {-1, 12}}

EncodersOfSecond ==
    {EncoderOn(ListOfCompounds, rnd, room) :
        rnd \in Orders(ListOfCompounds), room \in {-1, 0}}

EncodersOf(p) == IF p = 1 THEN EncodersOfFirst ELSE EncodersOfSecond

Quiet ==
    /\ tree = EndTag /\ sortCompounds = FALSE
    /\ enc = Nil /\ enc2 = Nil /\ wire = <<>> /\ fault = <<"none">> /\ dec = Nil
    /\ json = Nil /\ unj = Nil /\ lenIn = Nil /\ lenOut = Nil
    /\ dec2 = Nil /\ cli = Nil
    /\ readers = <<>> /\ tables = typeNames

\* one Decoder or one Encoder
InitOne ==
    /\ Quiet /\ pc = "one"
    /\ \/ decs \in {<<DecoderOn(in)>> : in \in Streams} /\ encs = <<>>
       \/ /\ decs = <<>>
          /\ \E t \in EncoderTrees :
                encs \in {<<EncoderOn(t, rnd, room)>> : rnd \in Orders(t), room \in Rooms(t)}

\* two Decoders, two Encoders, or one of each
InitTwo ==
    /\ Quiet /\ pc = "two"
    /\ \E a, b \in Streams :
          /\ StreamOfFirst(a) /\ StreamOfSecond(b)
          /\ \/ decs = <<DecoderOn(a), DecoderOn(b)>> /\ encs = <<>>
             \/ /\ decs = <<>>
                /\ encs \in {<<e, f>> : e \in EncodersOf(1), f \in EncodersOf(2)}
             \/ /\ decs = <<DecoderOn(a)>>
                /\ encs \in {<<e>> : e \in EncodersOf(1)}

\* the offsetReader that NewDecoder allocates for the Decoder p: one of its
\* own
NewOffsetReaderShared(p) == 1

NewOffsetReader(p) == p

\* the Decoder p with its offsetReader
Deref(p) == decs[p] @@ readers[decs[p].r]

\* the Decoder p and its offsetReader after a step that left them as d
Store(p, d) ==
    /\ decs' = [decs EXCEPT ![p] = [f \in DOMAIN decs[p] |-> d[f]]]
    /\ readers' = [readers EXCEPT ![decs[p].r] = [s |-> d.s, off |-> d.off]]

Frame1 == <<tree, sortCompounds, pc, enc, enc2, wire, fault, dec, json, unj,
            lenIn, lenOut, dec2, tables, cli>>

\* dec := NewDecoder(r)
NewDecoderOf(p) ==
    /\ p \in DOMAIN decs /\ decs[p].pc = "new"
    /\ decs' = [decs EXCEPT ![p].pc = "ready", ![p].r = NewOffsetReader(p)]
    /\ readers' = [i \in DOMAIN readers \cup {NewOffsetReader(p)} |->
                     IF i = NewOffsetReader(p)
                     THEN [s |-> decs[p].in.s, off |-> 0]
                     ELSE readers[i]]
    /\ UNCHANGED <<Frame1, encs>>

\* dec.Decode() is called: once for every document the stream is to hold, as
\* long as no call has failed
DecodeBegin(p) ==
    /\ p \in DOMAIN decs /\ decs[p].pc = "ready"
    /\ Len(decs[p].results) < Len(decs[p].in.docs)
    /\ \A i \in 1..Len(decs[p].results) : decs[p].results[i].err = "nil"
    /\ \E d \in {Deref(p)} :
          \E next \in {DecoderCall(d)} : Store(p, [next EXCEPT !.pc = "running"])
    /\ UNCHANGED <<Frame1, encs>>

\* the call goes one step on
DecodeStep(p) ==
    /\ p \in DOMAIN decs /\ decs[p].pc = "running" /\ decs[p].stack # <<>>
    /\ \E d \in {Deref(p)} : \E next \in {DecoderStep(d)} : Store(p, next)
    /\ UNCHANGED <<Frame1, encs>>

\* the call returns to the program
DecodeEnd(p) ==
    /\ p \in DOMAIN decs /\ decs[p].pc = "running" /\ decs[p].stack = <<>>
    /\ Store(p, [Deref(p) EXCEPT
                    !.pc = "ready",
                    !.results = Append(@, [err |-> decs[p].ret.err,
                                           val |-> decs[p].ret.val,
                                           off |-> readers[decs[p].r].off])])
    /\ UNCHANGED <<Frame1, encs>>

\* enc := NewEncoder(w)
NewEncoderOf(p) ==
    /\ p \in DOMAIN encs /\ encs[p].pc = "new"
    /\ encs' = [encs EXCEPT ![p].pc = "ready", ![p].sort = FALSE]
    /\ UNCHANGED <<Frame1, decs, readers>>

\* enc.SortCompounds(on)
SortCompoundsOf(p) ==
    /\ p \in DOMAIN encs /\ encs[p].pc = "ready"
    /\ \E on \in BOOLEAN : encs' = [encs EXCEPT ![p].pc = "set", ![p].sort = on]
    /\ UNCHANGED <<Frame1, decs, readers>>

\* enc.Encode(tag) is called
EncodeBegin(p) ==
    /\ p \in DOMAIN encs /\ encs[p].pc \in {"ready", "set"}
    /\ encs' = [encs EXCEPT ![p].pc = "running"]
    /\ UNCHANGED <<Frame1, decs, readers>>

\* the Encode call of the Encoder p, from its start to its return
EncodeOf(p) == EncodeTo(encs[p].sort, encs[p].rnd, encs[p].tree, encs[p].room)

\* the place of the last byte of the Write call that follows n bytes written
WriteEnd(w, n) ==
    CHOOSE j \in (n + 1)..Len(w.out) :
        /\ j = Len(w.out) \/ w.role[j + 1][2] = 1
        /\ \A k \in (n + 2)..j : w.role[k][2] # 1

\* the call makes its next Write
EncodeStep(p) ==
    /\ p \in DOMAIN encs /\ encs[p].pc = "running"
    /\ Len(encs[p].out) < Len(EncodeOf(p).out)
    /\ encs' = [encs EXCEPT ![p].out =
                    SubSeq(EncodeOf(p).out, 1, WriteEnd(EncodeOf(p), Len(encs[p].out)))]
    /\ UNCHANGED <<Frame1, decs, readers>>

\* the call returns to the program
EncodeEnd(p) ==
    /\ p \in DOMAIN encs /\ encs[p].pc = "running"
    /\ Len(encs[p].out) = Len(EncodeOf(p).out)
    /\ encs' = [encs EXCEPT ![p].pc = "done", ![p].err = EncodeOf(p).err,
                            ![p].late = EncodeOf(p).late]
    /\ UNCHANGED <<Frame1, decs, readers>>

NextProcs ==
    \E p \in Procs :
        \/ NewDecoderOf(p)
        \/ DecodeBegin(p)
        \/ DecodeStep(p)
        \/ DecodeEnd(p)
        \/ NewEncoderOf(p)
        \/ SortCompoundsOf(p)
        \/ EncodeBegin(p)
        \/ EncodeStep(p)
        \/ EncodeEnd(p)

\* a scheduler that lets every call in progress take its next step
Fairness == \A p \in Procs : WF_vars(DecodeStep(p)) /\ WF_vars(DecodeEnd(p))

SpecOne == InitOne /\ [][NextProcs]_vars /\ Fairness

SpecTwo == InitTwo /\ [][NextProcs]_vars

(***************************************************************************)
(* nbtjs, NBT to JSON (cmd/nbtjs/main.go:32-98, 128-181), and what it uses  *)
(* of compress/gzip, compress/flate and bufio.  The gzip members are those  *)
(* a gzip.Writer of level 0 writes: a header without optional fields, the   *)
(* data in stored blocks, the CRC-32 and the size of the data.              *)
(***************************************************************************)
\* the bitwise exclusive or of two naturals
RECURSIVE Xor(_, _)
Xor(a, b) ==
    IF a = 0 THEN b
    ELSE IF b = 0 THEN a
    ELSE 2 * Xor(a \div 2, b \div 2) + ((a + b) % 2)

\* one bit of the CRC-32 of IEEE 802.3 on a 32-bit word <<high half, low half>>
crcBit(c) ==
    LET hi == c[1] \div 2
        lo == (c[2] \div 2) + (c[1] % 2) * 32768
    IN IF c[2] % 2 = 1 THEN <<Xor(hi, 60856), Xor(lo, 33568)>> ELSE <<hi, lo>>

RECURSIVE crcBits(_, _)
crcBits(c, n) == IF n = 0 THEN c ELSE crcBit(crcBits(c, n - 1))

\* the register after the first k bytes of s
RECURSIVE crcUpdate(_, _)
crcUpdate(s, k) ==
    IF k = 0 THEN <<65535, 65535>>
    ELSE CHOOSE r \in {crcBits(<<c[1], Xor(c[2], s[k])>>, 8) :
                          c \in {crcUpdate(s, k - 1)}} : TRUE

\* crc32.ChecksumIEEE
ChecksumIEEE(s) ==
    LET c == crcUpdate(s, Len(s)) IN <<65535 - c[1], 65535 - c[2]>>

\* little-endian fields of 2 and of 4 bytes
le16(n) == <<n % 256, n \div 256>>
le32(c) == le16(c[2]) \o le16(c[1])

\* a stored block of compress/flate: the header byte, LEN, NLEN, the data
storedBlock(final, data) ==
    <<final>> \o le16(Len(data)) \o le16(65535 - Len(data)) \o data

\* a flate.Writer of level 0: the data in a stored block, and the final
\* empty block that Close writes
Deflate(data) ==
    (IF data = <<>> THEN <<>> ELSE storedBlock(0, data)) \o storedBlock(1, <<>>)

\* the header a gzip.Writer writes: ID1, ID2, CM = deflate, no flags, no
\* modification time, no extra flags, OS unknown
gzipHeader == <<31, 139, 8, 0, 0, 0, 0, 0, 0, 255>>

\* the file a gzip.Writer of level 0 leaves for the data
Gzip(data) ==
    gzipHeader \o Deflate(data) \o le32(ChecksumIEEE(data)) \o le32(<<0, Len(data)>>)

\* flate's reader on stored blocks: the data, the error that ends it
\* ("nil" after the final block) and the bytes after the final block
RECURSIVE Inflate(_)
Inflate(s) ==
    IF Len(s) < 5 THEN [val |-> <<>>, err |-> "unexpected EOF", rest |-> <<>>]
    ELSE LET n == s[2] + 256 * s[3]
             nn == s[4] + 256 * s[5]
             data == SubSeq(s, 6, 5 + n)
             rest == SubSeq(s, 6 + n, Len(s))
         IN IF (s[1] \div 2) % 4 # 0 \/ n + nn # 65535
            THEN [val |-> <<>>, err |-> "flate: corrupt input", rest |-> <<>>]
            ELSE IF Len(s) < 5 + n
            THEN [val |-> data, err |-> "unexpected EOF", rest |-> <<>>]
            ELSE IF s[1] % 2 = 1
            THEN [val |-> data, err |-> "nil", rest |-> rest]
            ELSE LET more == Inflate(rest)
                 IN [val |-> data \o more.val, err |-> more.err, rest |-> more.rest]

\* gzip.NewReader on a source of which the reads of its bufio.Reader took
\* the first n bytes: readHeader wants 10 bytes and checks ID1, ID2 and CM
NewReader(file, n) ==
    IF n = 0 THEN "EOF"
    ELSE IF n < Len(gzipHeader) THEN "unexpected EOF"
    ELSE IF \E i \in 1..3 : file[i] # gzipHeader[i] THEN "gzip: invalid header"
    ELSE "nil"

\* what a gzip.Reader delivers: the inflated data, and at their end io.EOF
\* when the trailer holds their CRC-32 and size, else an error
ReaderStream(file) ==
    LET body == Inflate(SubSeq(file, Len(gzipHeader) + 1, Len(file)))
        sums == le32(ChecksumIEEE(body.val)) \o le32(<<0, Len(body.val)>>)
    IN [s |-> body.val,
        end |-> IF body.err # "nil" THEN body.err
                ELSE IF Len(body.rest) < Len(sums) THEN "unexpected EOF"
                ELSE IF SubSeq(body.rest, 1, Len(sums)) # sums
                THEN "gzip: invalid checksum"
                ELSE "EOF"]

\* the command lines: no argument, an input file or "-", and an output file
\* or "-", or too many arguments
FileIn == <<105, 110>>
FileOut == <<111, 117, 116>>
Dash == <<45>>
Arguments ==
    {<<>>, <<FileIn>>, <<Dash>>, <<FileIn, FileOut>>, <<Dash, FileOut>>,
     <<FileIn, Dash>>, <<FileIn, FileOut, FileOut>>}

\* a gzip member whose trailer does not hold the CRC-32 of its data
DamagedTrailer(z) == [z EXCEPT ![Len(z) - 7] = (@ + 1) % 256]

\* the contents of the input: documents as they are, gzip members holding
\* documents, a member holding a document cut short, members whose trailer
\* does not fit their data, and nothing
Inputs ==
    {Canon(t) : t \in {EndTag, ListOfStrings, SteveTag}}
    \cup {Gzip(Canon(t)) : t \in {EndTag, ListOfStrings, SteveTag}}
    \cup {Gzip(SubSeq(Canon(ListOfStrings), 1, 7)),
          DamagedTrailer(Gzip(Canon(ListOfStrings))),
          DamagedTrailer(Gzip(SubSeq(Canon(ListOfStrings), 1, 7))),
          <<>>}

\* the Closers whose Close may fail
Failing == {{}, {"in"}, {"gz"}, {"in", "out", "gz"}}

\* the call of the operating system that fails, if one does: os.Open,
\* os.Create, or the Write of the output
Failures == {"none", "open", "create", "write"}

\* the process before main: its arguments, the contents of its input, the
\* calls of the operating system that will fail
CLI(args, file, failure, closeErr) ==
    [pc |-> "main", args |-> args, file |-> file,
     openErr |-> failure = "open", createErr |-> failure = "create",
     writeErr |-> failure = "write", closeErr |-> closeErr,
     infile |-> <<>>, outfile |-> <<>>, pos |-> 0, probed |-> FALSE,
     src |-> [s |-> <<>>, end |-> "none"],
     tag |-> [err |-> "none", off |-> 0],
     text |-> JErr("none"),
     defers |-> <<>>, opened |-> {}, closed |-> <<>>, panic |-> -1, status |-> -1]

InitCLI ==
    /\ tree = EndTag /\ sortCompounds = FALSE /\ pc = "nbtjs"
    /\ enc = Nil /\ enc2 = Nil /\ wire = <<>> /\ fault = <<"none">> /\ dec = Nil
    /\ json = Nil /\ unj = Nil /\ lenIn = Nil /\ lenOut = Nil /\ dec2 = Nil
    /\ readers = <<>> /\ decs = <<>> /\ encs = <<>> /\ tables = typeNames
    /\ cli \in {CLI(args, file, failure, closeErr) :
                  args \in Arguments, file \in Inputs,
                  failure \in Failures, closeErr \in Failing}

FrameCLI == <<tree, sortCompounds, pc, enc, enc2, wire, fault, dec, json, unj,
              lenIn, lenOut, dec2, readers, decs, encs, tables>>

\* exit(code): a panic that carries the code (main.go:34-36); fatal is
\* exit(1) after a message (main.go:59-62)
exit(c, code) == [c EXCEPT !.panic = code, !.pc = "deferred"]

\* defer closeIO(file, name), or defer handleExit()
defer(c, fn) ==
    [c EXCEPT !.defers = Append(@, fn),
              !.opened = IF fn = "handleExit" THEN @ ELSE @ \cup {fn}]

\* closeIO (main.go:64-68) as a deferred call: a Close that fails is fatal,
\* and the panic of exit(1) takes the place of the one in progress
closeIO(c, name) ==
    LET done == [c EXCEPT !.closed = Append(@, name)]
    IN IF name \in c.closeErr THEN [done EXCEPT !.panic = 1] ELSE done

\* handleExit (main.go:38-45) as the last deferred call: os.Exit with the
\* code of the panic it recovered, or main returns
handleExit(c) ==
    [c EXCEPT !.pc = "exited", !.status = IF c.panic # -1 THEN c.panic ELSE 0]

\* the bytes that the reads of gzip.NewReader's bufio.Reader may take from
\* the input before the header is judged: io.ReadFull asks for the 10 bytes
\* of the header, and each Read of the source delivers what there is, up to
\* the size of the buffer; a file delivers all it has, the standard input
\* here the least or the most it can
ProbeReads(c) ==
    LET size == Len(c.file)
        want == IF size < Len(gzipHeader) THEN size ELSE Len(gzipHeader)
        most == IF size < 4096 THEN size ELSE 4096
    IN IF c.infile # <<>> THEN {most} ELSE {want, most}

\* main.go:129-148
CliArgs ==
    /\ pc = "nbtjs" /\ cli.pc = "main"
    /\ LET c == defer(cli, "handleExit")
           n == Len(cli.args)
       IN cli' = IF n > 2 THEN exit(c, 2)
                 ELSE [c EXCEPT
                         !.pc = "open",
                         !.outfile = IF n = 2 /\ cli.args[2] # Dash
                                     THEN cli.args[2] ELSE <<>>,
                         !.infile = IF n >= 1 /\ cli.args[1] # Dash
                                    THEN cli.args[1] ELSE <<>>]
    /\ UNCHANGED FrameCLI

\* main.go:150-161
CliOpen ==
    /\ pc = "nbtjs" /\ cli.pc = "open"
    /\ cli' = IF cli.infile = <<>> THEN [cli EXCEPT !.pc = "create"]
              ELSE IF cli.openErr THEN exit(cli, 1)
              ELSE [defer(cli, "in") EXCEPT !.pc = "create"]
    /\ UNCHANGED FrameCLI

\* main.go:163-174
CliCreate ==
    /\ pc = "nbtjs" /\ cli.pc = "create"
    /\ cli' = IF cli.outfile = <<>> THEN [cli EXCEPT !.pc = "probe"]
              ELSE IF cli.createErr THEN exit(cli, 1)
              ELSE [defer(cli, "out") EXCEPT !.pc = "probe"]
    /\ UNCHANGED FrameCLI

\* main.go:71-85: the Decoder reads from the gzip.Reader unless NewReader
\* returned gzip.ErrHeader, and then from the file, at the place where the
\* reads of NewReader left it
CliProbe ==
    /\ pc = "nbtjs" /\ cli.pc = "probe"
    /\ \E n \in ProbeReads(cli) :
          LET err == NewReader(cli.file, n)
              c == [cli EXCEPT !.pos = n, !.probed = TRUE]
          IN cli' = IF err = "gzip: invalid header"
                    THEN [c EXCEPT !.pc = "decode",
                                   !.src = [s |-> SubSeq(cli.file, n + 1, Len(cli.file)),
                                            end |-> "EOF"]]
                    ELSE IF err # "nil" THEN exit(c, 1)
                    ELSE [defer(c, "gz") EXCEPT !.pc = "decode",
                                                !.src = ReaderStream(cli.file)]
    /\ UNCHANGED FrameCLI

\* main.go:87-90; a source that ends with an error of its own hands that
\* error to the read that meets the end
CliDecode ==
    /\ pc = "nbtjs" /\ cli.pc = "decode"
    /\ LET r == Decode(cli.src.s, 0)
           err == IF r.err \in {"EOF", "unexpected EOF"} /\ cli.src.end # "EOF"
                  THEN cli.src.end ELSE r.err
           c == [cli EXCEPT !.tag = [r EXCEPT !.err = err]]
       IN cli' = IF err # "nil" THEN exit(c, 1) ELSE [c EXCEPT !.pc = "encode"]
    /\ UNCHANGED FrameCLI

\* main.go:92-97, and the return of nbtToJSON and of main
CliEncode ==
    /\ pc = "nbtjs" /\ cli.pc = "encode"
    /\ \E order \in TwoPerms(AllNames(cli.tag.val.Payload)) :
          LET text == NamedTagMarshalJSON(cli.tag.val, order)
          IN cli' = IF text.err # "nil" \/ cli.writeErr THEN exit(cli, 1)
                    ELSE [cli EXCEPT !.pc = "deferred", !.text = text]
    /\ UNCHANGED FrameCLI

\* the deferred calls run, the last deferred first, when main returns and
\* when it panics
CliDeferred ==
    /\ pc = "nbtjs" /\ cli.pc = "deferred" /\ cli.defers # <<>>
    /\ LET fn == cli.defers[Len(cli.defers)]
           c == [cli EXCEPT !.defers = SubSeq(@, 1, Len(@) - 1)]
       IN cli' = IF fn = "handleExit" THEN handleExit(c) ELSE closeIO(c, fn)
    /\ UNCHANGED FrameCLI

NextCLI ==
    \/ CliArgs
    \/ CliOpen
    \/ CliCreate
    \/ CliProbe
    \/ CliDecode
    \/ CliEncode
    \/ CliDeferred

SpecCLI == InitCLI /\ [][NextCLI]_vars

(***************************************************************************)
(* Properties                                                               *)
(***************************************************************************)
TreeOk == WellTyped(tree.Type, tree.Payload)

\* C1: binary round trip.  For every tree that satisfies the data model
\* (every payload of the kind its Type declares, End being no value kind,
\* lists homogeneous, a list of End empty, names and strings short enough),
\* Encode succeeds, and Decode of the bytes written then succeeds and returns
\* a tree equal to the one encoded, with SortCompounds on or off.
C1_RoundTrip ==
    TreeOk =>
        /\ pc \in {"encoded", "encoded2", "decoded"} => enc.err = "nil"
        /\ pc = "decoded" /\ fault[1] = "none" =>
              /\ dec.err = "nil"
              /\ dec.val = tree
              /\ dec.off = Len(enc.out)

C1_Witness ==
    /\ pc = "decoded" /\ fault[1] = "none" /\ TreeOk
    /\ ~sortCompounds
    /\ CountMaps(tree.Payload) >= 3
    /\ dec.err = "nil"

\* C2 as stated: JSON round trip.  For every tree of the data model,
\* NamedTag.MarshalJSON succeeds and NamedTag.UnmarshalJSON of its text
\* succeeds and yields a tree equal to the one marshalled: same types, names,
\* payload values, list element types and orders, and compound members.
C2_JSONRoundTrip ==
    TreeOk =>
        /\ pc \in {"marshalled", "unmarshalled"} => json.err = "nil"
        /\ pc = "unmarshalled" => unj.err = "nil" /\ unj.val = tree

\* C3 as stated: the sorted encoding of the compound "root" holding Short
\* "health" = 20 and String "name" = "Steve" ends with two End bytes.
C3_TwoEndBytes ==
    pc = "encoded" /\ tree = SteveTag /\ sortCompounds =>
        enc.err = "nil" /\ enc.out = SteveData \o <<0>>

\* C3 amended: that encoding is exactly the 33 bytes 0A 00 04 "root"
\* 02 00 06 "health" 00 14 08 00 04 "name" 00 05 "Steve" 00: it ends with
\* the one End byte that terminates the root compound.
C3_SteveBytes ==
    pc = "encoded" /\ tree = SteveTag /\ sortCompounds =>
        enc.err = "nil" /\ enc.out = SteveData

C3_Witness ==
    /\ pc = "encoded" /\ tree = SteveTag /\ sortCompounds
    /\ Len(enc.out) = 33 /\ enc.orders = <<<<StrName, StrHealth>>>>

\* C4: with SortCompounds(true), two Encode calls on the same tree write the
\* same bytes and return the same error, whatever orders the map iterations
\* of the two calls take, at every nesting level.
C4_SortedDeterminism ==
    pc = "encoded2" /\ sortCompounds =>
        enc.out = enc2.out /\ enc.err = enc2.err

C4_Witness ==
    /\ pc = "encoded2" /\ sortCompounds /\ TreeOk
    /\ CountMaps(tree.Payload) >= 3
    /\ \A i \in 1..Len(enc.orders) :
          Len(enc.orders[i]) > 1 => enc.orders[i] # enc2.orders[i]
    /\ enc.err = "nil"

\* the unsigned value of big-endian bytes
RECURSIVE BigEndian(_)
BigEndian(b) ==
    IF b = <<>> THEN 0 ELSE BigEndian(SubSeq(b, 1, Len(b) - 1)) * 256 + b[Len(b)]

\* the stream is the encoding of a valid tree with the byte at the given
\* place of a field replaced
CorruptAt(field, k) ==
    /\ pc = "decoded" /\ fault[1] = "corrupt" /\ TreeOk
    /\ enc.role[fault[2]] = <<field, k>>

\* C5 as stated: a list header of element type End makes Decode fail when
\* its count is greater than 0 (here the encoding of a list of End with the
\* last byte of its count replaced), and decodes to the empty list of End
\* when its count is 0.
C5_EndListNonzero ==
    /\ /\ CorruptAt("listlen", 4)
       /\ enc.out[fault[2] - 4] = TypeEnd
       /\ enc.role[fault[2] - 4] = <<"ltype", 1>>
       => dec.err # "nil"
    /\ /\ pc = "decoded" /\ fault[1] = "none" /\ TreeOk
       /\ tree.Type = TypeList /\ Data(tree.Payload).Type = TypeEnd
       => dec.err = "nil" /\ dec.val.Payload = V("*List", EndList)

\* C6: a negative length field of a name, string, byte array, int array, long
\* array or list makes Decode return the negative-length error and no tag,
\* having read nothing after the length field.
C6_NegativeLength ==
    \A field \in LengthFields :
        CorruptAt(field, 1) /\ fault[3] >= 128 =>
            /\ dec.err = "negative length"
            /\ dec.val = Nil
            /\ dec.off = fault[2] - 1 + FieldWidth(field)

C6_Witness ==
    /\ CorruptAt("lalen", 1) /\ fault[3] = 255
    /\ dec.err = "negative length"
    /\ dec.off < Len(wire)

\* C7: a compound in which two entries carry the same name makes Decode fail
\* with the duplicate-name error and return no compound; equal names in
\* different compounds are no duplicates.
C7_DuplicateName ==
    /\ pc = "decoded" /\ fault[1] = "duplicate" /\ TreeOk =>
          /\ dec.err = "duplicate name"
          /\ dec.val = Nil
          /\ dec.off = 2 * fault[3] - fault[2] + 1
    /\ pc = "decoded" /\ fault[1] = "none" /\ TreeOk => dec.err = "nil"

C7_Witness ==
    /\ pc = "decoded" /\ fault[1] = "duplicate" /\ TreeOk
    /\ CountMaps(tree.Payload) >= 2
    /\ dec.err = "duplicate name"
    /\ dec.off < Len(wire)

\* the payload of the root, or the array of a root list, is not of the kind
\* the Type declares
KindMismatch ==
    /\ tree.Type \in TypeByte..TypeLongArray
    /\ \/ Kind(tree.Payload) # PayloadKind(tree.Type)
       \/ /\ tree.Type = TypeList
          /\ Data(tree.Payload).Type \in TypeByte..TypeLongArray
          /\ Kind(Data(tree.Payload).Array) # ArrayKind(Data(tree.Payload).Type)

\* C8 as stated: Encode of a tag whose payload is not of the kind its Type
\* declares returns an error.
C8_TypeContract ==
    pc = "encoded" /\ KindMismatch => enc.err # "nil"

\* C9 as stated: Encode of a list of End whose array holds one or more
\* elements returns an error.
C9_EndListElements ==
    /\ pc = "encoded"
    /\ tree.Type = TypeList /\ Kind(tree.Payload) = "*List"
    /\ Data(tree.Payload).Type = TypeEnd
    /\ Kind(Data(tree.Payload).Array) # "nil"
    /\ Len(Data(Data(tree.Payload).Array)) >= 1
    => enc.err # "nil"

\* C10: a name or string of more than 32767 bytes, and a byte array, int
\* array, long array or list of more than 2^31 - 1 elements, makes the length
\* writer fail having written nothing; any other length, the greatest one
\* included, is written as the big-endian field holding exactly that length.
C10_LengthBounds ==
    pc = "lenDone" =>
        LET hi == lenIn.length[1]
            lo == lenIn.length[2]
            max == IF FieldWidth(lenIn.field) = 2 THEN 32767 ELSE 2147483647
        IN IF hi = 0 /\ lo >= 0 /\ lo <= max
           THEN /\ lenOut.err = "nil"
                /\ Len(lenOut.out) = FieldWidth(lenIn.field)
                /\ BigEndian(lenOut.out) = lo
           ELSE lenOut.err # "nil" /\ lenOut.out = <<>>

C10_Witness ==
    /\ pc = "lenDone"
    /\ lenIn.field = "namelen" /\ lenIn.length = <<0, 32768>>
    /\ lenOut.err # "nil" /\ lenOut.out = <<>>

\* C11 as stated: a type byte outside 0..12, read as the type of a named tag
\* or as the element type of a list (here a type byte of the encoding of a
\* valid tree replaced by 13 or 255), makes Decode fail with the unknown-type
\* error, whatever bytes follow it.
C11_UnknownTag ==
    \A field \in {"type", "ltype"} :
        CorruptAt(field, 1) /\ fault[3] \in {13, 255} => dec.err = "unknown type"

\* C12: a proper prefix of the encoding of a valid tree (the input ending
\* inside a fixed-width value, a name, an array, or before the End of a
\* compound) makes Decode return EOF or unexpected EOF and no tag, with the
\* whole prefix consumed; the missing bytes are never read as zero.
C12_Truncation ==
    pc = "decoded" /\ fault[1] = "truncate" /\ TreeOk =>
        /\ dec.err \in {"EOF", "unexpected EOF"}
        /\ dec.val = Nil
        /\ dec.off = Len(wire)

C12_Witness ==
    /\ pc = "decoded" /\ fault[1] = "truncate" /\ TreeOk
    /\ tree.Type = TypeCompound
    /\ enc.role[fault[2] + 1] = <<"data", 3>>
    /\ Len(enc.out) > fault[2] + 3
    /\ dec.err = "unexpected EOF"

\* C13: whenever Decode returns an error (a damaged type byte, length or
\* name, a truncated input or a duplicated member, at any depth) the tag it
\* returns is nil: no Type, Name, decoded sibling or child comes back.
C13_NoPartialTree ==
    pc = "decoded" /\ dec.err # "nil" => dec.val = Nil

C13_Witness ==
    /\ pc = "decoded" /\ fault[1] = "truncate" /\ TreeOk
    /\ tree.Type = TypeCompound
    /\ \E e \in enc.entries : e[2] < fault[2]
    /\ dec.err # "nil" /\ dec.val = Nil

\* C14: the offset Decode ends with, which tags the error it returns, is the
\* number of bytes the reader delivered: between 0 and the length of the
\* input; the whole input after the decode of a valid tree's encoding and after
\* EOF or unexpected EOF; the end of the length field for a negative length;
\* the end of the name (of a tag) or of the length (of a list) that follows
\* an unknown type byte; the end of the second member of the same name
\* (the damaged byte being the negative length or the unknown type itself).
C14_OffsetTracking ==
    pc = "decoded" =>
        /\ dec.off >= 0 /\ dec.off <= Len(wire)
        /\ dec.err = "nil" /\ fault[1] = "none" /\ TreeOk => dec.off = Len(wire)
        /\ dec.err \in {"EOF", "unexpected EOF"} => dec.off = Len(wire)
        /\ \A field \in LengthFields :
              /\ fault[1] = "corrupt" /\ enc.role[fault[2]] = <<field, 1>>
              /\ fault[3] >= 128 /\ dec.err = "negative length"
              => dec.off = fault[2] - 1 + FieldWidth(field)
        /\ /\ fault[1] = "corrupt" /\ enc.role[fault[2]] = <<"type", 1>>
           /\ fault[3] \in {13, 255} /\ dec.err = "unknown type"
           => dec.off = fault[2] + 2
                          + BigEndian(SubSeq(wire, fault[2] + 1, fault[2] + 2))
        /\ /\ fault[1] = "corrupt" /\ enc.role[fault[2]] = <<"ltype", 1>>
           /\ fault[3] \in {13, 255} /\ dec.err = "unknown type"
           => dec.off = fault[2] + 4
        /\ fault[1] = "duplicate" /\ dec.err = "duplicate name"
           => dec.off = 2 * fault[3] - fault[2] + 1

C14_Witness ==
    /\ pc = "decoded" /\ fault[1] = "corrupt" /\ TreeOk
    /\ enc.role[fault[2]] = <<"type", 1>> /\ fault[2] > 1
    /\ dec.err = "unknown type"
    /\ dec.off > fault[2] + 2 /\ dec.off < Len(wire)

\* the base-10 text of a signed integer of at most 31 bits
RECURSIVE DecimalDigits(_)
DecimalDigits(n) ==
    IF n < 10 THEN <<48 + n>> ELSE Append(DecimalDigits(n \div 10), 48 + (n % 10))

SignedText(n) == IF n < 0 THEN <<45>> \o DecimalDigits(-n) ELSE DecimalDigits(n)

\* the signed value of a byte, and of a 64-bit word that fits 32 bits
Signed8(b) == IF b >= 128 THEN b - 256 ELSE b
Signed64(v) == v[2]

SignedTexts(a, Value(_)) ==
    JArray([i \in 1..Len(a) |-> JString(SignedText(Value(a[i])))])

Same(n) == n

\* the JSON value j written for a payload holds every integer of the payload
\* as the JSON string of its signed base-10 text
RECURSIVE NumericForm(_, _, _)
NumericForm(typ, payload, j) ==
    LET d == Data(payload) IN
    CASE typ \in {TypeByte, TypeShort, TypeInt} -> j = JString(SignedText(d))
      [] typ = TypeLong -> j = JString(SignedText(Signed64(d)))
      [] typ = TypeByteArray -> j = SignedTexts(d, Signed8)
      [] typ = TypeIntArray -> j = SignedTexts(d, Same)
      [] typ = TypeLongArray -> j = SignedTexts(d, Signed64)
      [] typ = TypeList ->
            LET a == Data(d.Array)
                ja == Field(j, KeyArray)
                each(kind) ==
                    /\ Kind(ja) = "array" /\ Len(Data(ja)) = Len(a)
                    /\ \A i \in 1..Len(a) : NumericForm(d.Type, V(kind, a[i]), Data(ja)[i])
            IN CASE d.Type \in {TypeByte, TypeShort, TypeInt} -> ja = SignedTexts(a, Same)
                 [] d.Type = TypeLong -> ja = SignedTexts(a, Signed64)
                 [] d.Type = TypeByteArray -> each("[]byte")
                 [] d.Type = TypeIntArray -> each("[]int32")
                 [] d.Type = TypeLongArray -> each("[]int64")
                 [] d.Type = TypeList -> each("*List")
                 [] d.Type = TypeCompound -> each("Compound")
                 [] OTHER -> TRUE
      [] typ = TypeCompound ->
            /\ Kind(j) = "object"
            /\ \A n \in DOMAIN d :
                  NumericForm(d[n].Type, d[n].Payload, Field(Field(j, Runes(n)), KeyPayload))
      [] OTHER -> TRUE

\* C15 as stated: every Byte, Short, Int and Long payload, every element of a
\* ByteArray, IntArray or LongArray and every element of a List of those
\* kinds is marshalled as the JSON string of the base-10 text of its signed
\* value; a ByteArray element 0xFF is written "-1", as a Byte payload 0xFF is.
C15_NumericForm ==
    pc = "marshalled" /\ TreeOk =>
        /\ json.err = "nil"
        /\ NumericForm(tree.Type, tree.Payload, Field(json.val, KeyPayload))

\* the ranks in NumberTable of the least and the greatest value of the type
RangeOf(typ) ==
    CASE typ = TypeByte -> <<8, 12>>
      [] typ = TypeShort -> <<6, 14>>
      [] typ = TypeInt -> <<4, 16>>
      [] typ = TypeLong -> <<2, 18>>

\* C16: a Byte, Short, Int or Long payload, and an element of a List of one
\* of these types, given as the decimal text of a value of the type's signed
\* range, the least and the greatest included (-128/127, -32768/32767,
\* -2^31/2^31-1, -2^63/2^63-1), is unmarshalled to exactly that value; the
\* text of the least value minus one, of the greatest plus one, or of any
\* value further out makes unmarshalling fail.
C16_IntegerRange ==
    pc = "parsed" =>
        \A t \in TypeByte..TypeLong, e \in NumberTable :
            LET inRange == RangeOf(t)[1] <= e.rank /\ e.rank <= RangeOf(t)[2]
                want == IF t = TypeLong THEN e.val ELSE e.val[2]
                kind == ScalarKind(t)
            IN
            /\ json.val = NamedJ(TypeJ(t), NameJ, JString(e.text)) =>
                  IF inRange
                  THEN /\ unj.err = "nil"
                       /\ unj.val = Named(<<97>>, Tag(t, V(kind, want)))
                  ELSE unj.err # "nil"
            /\ json.val = NamedJ(TypeJ(TypeList), NameJ,
                                 ListJ(TypeJ(t), JArray(<<JString(e.text)>>))) =>
                  IF inRange
                  THEN /\ unj.err = "nil"
                       /\ unj.val = Named(<<97>>,
                              Tag(TypeList, List(t, V("[]" \o kind, <<want>>))))
                  ELSE unj.err # "nil"

C16_Witness ==
    /\ pc = "parsed"
    /\ json.val = NamedJ(TypeJ(TypeByte), NameJ, JString(<<49, 50, 56>>))
    /\ unj.err = "value out of range"

\* s looks like a decimal number: digits, with sign, point and exponent only
IsDecimal(s) ==
    /\ \E i \in 1..Len(s) : s[i] \in 48..57
    /\ \A i \in 1..Len(s) : s[i] \in 48..57 \cup {43, 45, 46, 69, 101}

IsDecimalString(v) == Kind(v) = "string" /\ IsDecimal(Data(v))

\* a type that is present and is not the JSON string of a canonical name
BadType(tj) ==
    /\ tj # JAbsent
    /\ \A t \in TypeEnd..TypeLongArray : tj # TypeJ(t)

\* the JSON value v is numeric text for the type: the string of a decimal
\* number or, unless strict, the string "NaN" for a Float or Double
NumericText(t, v, strict) ==
    \/ IsDecimalString(v)
    \/ ~strict /\ t \in {TypeFloat, TypeDouble} /\ v = JString(NaNText)

\* the tag of type tj and payload pj, or a tag or list inside it, has a type
\* that is no canonical name, or a numeric payload or element that is no
\* numeric text
RECURSIVE MalformedPayload(_, _, _)
MalformedPayload(tj, pj, strict) ==
    LET members(m) ==
            /\ Kind(m) = "object"
            /\ \E k \in DOMAIN Data(m) :
                  MalformedPayload(Field(Data(m)[k], KeyType),
                                   Field(Data(m)[k], KeyPayload), strict)
        list(lt, a) ==
            \/ BadType(lt)
            \/ /\ Kind(a) = "array"
               /\ \E i \in 1..Len(Data(a)) :
                     \/ \E t \in TypeByte..TypeDouble :
                           lt = TypeJ(t) /\ ~NumericText(t, Data(a)[i], strict)
                     \/ lt = TypeJ(TypeCompound) /\ members(Data(a)[i])
                     \/ /\ lt = TypeJ(TypeList)
                        /\ MalformedPayload(TypeJ(TypeList), Data(a)[i], strict)
    IN
    \/ BadType(tj)
    \/ \E t \in TypeByte..TypeDouble : tj = TypeJ(t) /\ ~NumericText(t, pj, strict)
    \/ tj = TypeJ(TypeCompound) /\ members(pj)
    \/ /\ tj = TypeJ(TypeList) /\ Kind(pj) = "object"
       /\ list(Field(pj, KeyType), Field(pj, KeyArray))

\* every canonical name resolves to its own type
NamesResolve ==
    \A t \in TypeEnd..TypeLongArray :
        pc = "parsed" /\ json.val = NamedJ(TypeJ(t), NameJ, GoodPayload(t)) =>
            unj.err = "nil" /\ unj.val.Type = t

C18_EndListShape ==
    pc = "parsed" =>
        /\ \A a \in {JArray(<<JString(<<49>>)>>), JArray(<<JNull, JNumber(<<49>>)>>)} :
              json.val = NamedJ(TypeJ(TypeList), NameJ, ListJ(TypeJ(TypeEnd), a))
              => unj.err # "nil"
        /\ /\ unj.err = "nil" /\ unj.val.Type = TypeList
           /\ Data(unj.val.Payload).Type = TypeEnd
           => Data(unj.val.Payload).Array = Nil
        /\ Kind(json.val) = "object" /\ Field(json.val, KeyType) = JAbsent
           => unj.err # "nil"

\* C19 as stated: the bytes of a tag Name, of the keys of a compound, of a
\* String payload and of the elements of a List of String, valid UTF-8 or
\* not, come back identical from MarshalJSON followed by UnmarshalJSON.
C19_OpaqueStrings ==
    pc = "unmarshalled" /\ TreeOk =>
        /\ unj.err = "nil"
        /\ unj.val.Name = tree.Name
        /\ tree.Type = TypeString => unj.val.Payload = tree.Payload
        /\ tree.Type = TypeList /\ Data(tree.Payload).Type = TypeString
           => unj.val.Payload = tree.Payload
        /\ tree.Type = TypeCompound
           => DOMAIN Data(unj.val.Payload) = DOMAIN Data(tree.Payload)

\* the keys of a marshalled compound in the order they are written
WrittenKeys(j) == j[3]

\* C20: MarshalJSON writes the members of a compound in ascending order of
\* name, each under its name with its type and its payload, and writes the
\* same text for a tree whatever order the map iterations take.
C20_CompoundOrder ==
    pc = "marshalled" /\ TreeOk /\ tree.Type = TypeCompound =>
        /\ json.err = "nil"
        /\ LET j == Field(json.val, KeyPayload)
               m == Data(tree.Payload)
               keys == WrittenKeys(j)
           IN /\ Len(keys) = Cardinality(DOMAIN m)
              /\ \A i \in 1..(Len(keys) - 1) : StrLess(keys[i], keys[i + 1])
              /\ \A n \in DOMAIN m :
                    /\ \E i \in 1..Len(keys) : keys[i] = Runes(n)
                    /\ Field(Field(j, Runes(n)), KeyType) = TypeJ(m[n].Type)
                    /\ Field(Field(j, Runes(n)), KeyPayload) # JAbsent
        /\ \A order \in Perms(AllNames(tree.Payload)) :
              NamedTagMarshalJSON(tree, order).val = json.val

C20_Witness ==
    /\ pc = "marshalled" /\ TreeOk /\ tree.Type = TypeCompound
    /\ CountMaps(tree.Payload) >= 2
    /\ json.err = "nil"
    /\ Len(WrittenKeys(Field(json.val, KeyPayload))) = 2
    /\ MapRange(Data(tree.Payload), json.order)
          # WrittenKeys(Field(json.val, KeyPayload))

\* the places of the End bytes written: the type bytes of value 0
EndBytes ==
    {i \in 1..Len(enc.out) : enc.role[i] = <<"type", 1>> /\ enc.out[i] = TypeEnd}

\* the places where a compound member starts
MemberStarts == {e[1] : e \in enc.entries}

\* the places of the last byte of the count of a list of one or more compounds
CompoundListCounts ==
    {j \in 5..Len(enc.out) :
        /\ enc.role[j] = <<"listlen", 4>>
        /\ enc.role[j - 4] = <<"ltype", 1>> /\ enc.out[j - 4] = TypeCompound
        /\ BigEndian(SubSeq(enc.out, j - 3, j)) > 0}

\* C21: the bytes of a successful Encode of a tag other than End hold one
\* End byte for every compound written (every compound of a valid tree:
\* root, nested, list element, empty) and no other; an End byte
\* is the last byte written or is followed by the type byte of the next
\* member, the End byte of the enclosing compound or the element type of the
\* next list, never by a name or a payload; the encoding of a root compound
\* ends with its End byte; the first byte after the count of a list of
\* compounds is the type byte of the first member of the first element, or
\* its End byte: the element has no type byte and no name of its own.
C21_CompoundTerminator ==
    pc = "encoded" /\ enc.err = "nil" /\ tree.Type # TypeEnd =>
        /\ Cardinality(EndBytes) = Len(enc.orders)
        /\ TreeOk => Len(enc.orders) = CountMaps(tree.Payload)
        /\ \A i \in EndBytes :
              i < Len(enc.out) => enc.role[i + 1] \in {<<"type", 1>>, <<"ltype", 1>>}
        /\ tree.Type = TypeCompound => Len(enc.out) \in EndBytes
        /\ \A e \in enc.entries :
              /\ enc.role[e[1]] = <<"type", 1>> /\ enc.out[e[1]] # TypeEnd
              /\ enc.role[e[1] + 1] = <<"namelen", 1>>
        /\ \A j \in CompoundListCounts : j + 1 \in EndBytes \cup MemberStarts

C21_Witness ==
    /\ pc = "encoded" /\ TreeOk /\ enc.err = "nil"
    /\ tree.Type = TypeCompound /\ CountMaps(tree.Payload) >= 3
    /\ CompoundListCounts # {}
    /\ \E i \in EndBytes : i + 1 \in EndBytes
    /\ Cardinality(EndBytes) = 3

\* C22 as stated: Decode of a stream whose first byte, the type of the
\* top-level tag, is not Compound (here the encoding of a tag of another
\* type) fails with the invalid-root error and returns no tag.
C22_InvalidRoot ==
    pc = "decoded" /\ Len(wire) > 0 /\ wire[1] # TypeCompound =>
        dec.err = "root tag is not compound" /\ dec.val = Nil

\* the least of two numbers
Least(a, b) == IF a < b THEN a ELSE b

\* the Encode call of the Encoder e on a writer that takes every byte
Unhindered(e) == EncodeTo(e.sort, e.rnd, e.tree, -1)

\* C23: a Decode call in which a read or a check has returned an error only
\* returns, level by level, to the program: it starts no further read, the
\* offset stays where the error left it, and the program gets that error.
\* An Encode call that ends has made no Write after a Write or a check
\* returned an error: on a writer that fails it has written the bytes the
\* writer took and returns the writer's error, otherwise what it writes and
\* returns on a writer that never fails.  No step moves an offset back or
\* takes back a byte written.
C23_ImmediateAbort ==
    /\ [](\A p \in DOMAIN decs :
            /\ decs[p].late = 0
            /\ decs[p].pc = "running" /\ decs[p].failed.err # "nil" =>
                  /\ readers[decs[p].r].off = decs[p].failed.off
                  /\ decs[p].ret.err = decs[p].failed.err
            /\ \A i \in 1..Len(decs[p].results) :
                  decs[p].results[i].err # "nil" =>
                     /\ decs[p].results[i].err = decs[p].failed.err
                     /\ decs[p].results[i].off = decs[p].failed.off
                     /\ decs[p].results[i].val = Nil)
    /\ [](\A p \in DOMAIN encs :
            encs[p].pc = "done" =>
                /\ encs[p].late = 0
                /\ IF encs[p].room >= 0 /\ encs[p].room < Len(Unhindered(encs[p]).out)
                   THEN /\ encs[p].err = "write error"
                        /\ encs[p].out = SubSeq(Unhindered(encs[p]).out, 1, encs[p].room)
                   ELSE /\ encs[p].err = Unhindered(encs[p]).err
                        /\ encs[p].out = Unhindered(encs[p]).out)
    /\ [][/\ \A p \in DOMAIN decs :
                decs[p].pc # "new" /\ decs'[p].pc # "new" =>
                    readers'[decs'[p].r].off >= readers[decs[p].r].off
          /\ \A p \in DOMAIN encs :
                /\ Len(encs'[p].out) >= Len(encs[p].out)
                /\ SubSeq(encs'[p].out, 1, Len(encs[p].out)) = encs[p].out]_vars

\* an error three calls deep is on its way back to the program
C23_Witness ==
    /\ pc = "one" /\ decs # <<>>
    /\ decs[1].pc = "running" /\ decs[1].failed.err = "unexpected EOF"
    /\ Len(decs[1].stack) >= 3
    /\ decs[1].in.cut > 0

\* the outcome of the i-th Decode call of a Decoder that runs alone on the
\* stream s: every call starts where the one before it ended
RECURSIVE Alone(_, _)
Alone(s, i) == IF i = 1 THEN Decode(s, 0) ELSE Decode(s, Alone(s, i - 1).off)

WrittenName(w, e) ==
    SubSeq(w.out, e[1] + 3, e[1] + 2 + BigEndian(SubSeq(w.out, e[1] + 1, e[1] + 2)))

\* the number of members of the compounds of a value
MemberCount(v) ==
    LET ms == Maps(v)
        count[i \in 0..Len(ms)] ==
            IF i = 0 THEN 0 ELSE count[i - 1] + Cardinality(DOMAIN ms[i])
    IN count[Len(ms)]

\* C25: with SortCompounds(true), of two members written one after the other
\* in a compound the first has the name that is less, byte by byte ("B"
\* before "a", "a" before "ab"), at every depth; with SortCompounds on or off
\* a successful Encode of a valid tree writes one member for every entry of
\* every map; the sorted and the unsorted encoding of one tree decode to
\* the same tag with the same error, the tree itself when it is valid.
C25_SortedOrder ==
    /\ pc \in {"encoded", "decodedBoth"} /\ sortCompounds =>
          \A e1, e2 \in enc.entries :
             e2[1] = e1[2] + 1 => StrLess(WrittenName(enc, e1), WrittenName(enc, e2))
    /\ pc \in {"encoded", "decodedBoth"} /\ enc.err = "nil" /\ TreeOk =>
          Cardinality(enc.entries) = MemberCount(tree.Payload)
    /\ pc = "decodedBoth" =>
          /\ enc2.err = "nil"
          /\ Cardinality(enc2.entries) = Cardinality(enc.entries)
          /\ {WrittenName(enc2, e) : e \in enc2.entries}
                = {WrittenName(enc, e) : e \in enc.entries}
          /\ dec.err = dec2.err /\ dec.val = dec2.val
          /\ TreeOk => dec.err = "nil" /\ dec.val = tree

C25_Witness ==
    /\ pc = "decodedBoth" /\ TreeOk
    /\ CountMaps(tree.Payload) >= 2
    /\ enc.out # enc2.out
    /\ \E e1, e2 \in enc.entries :
          /\ e2[1] = e1[2] + 1
          /\ WrittenName(enc, e1) = <<66>> /\ WrittenName(enc, e2) = <<97>>
    /\ \E e1, e2 \in enc2.entries :
          /\ e2[1] = e1[2] + 1
          /\ WrittenName(enc2, e1) = <<97>> /\ WrittenName(enc2, e2) = <<66>>
    /\ dec.val = tree /\ dec2.val = tree

\* a Decode call of the Decoder p is in progress
Decoding(p) == p \in DOMAIN decs /\ decs[p].pc = "running"

RECURSIVE EndOf(_, _)
EndOf(in, i) == IF i = 0 THEN 0 ELSE EndOf(in, i - 1) + Len(Canon(in.docs[i]))

\* C27: on a stream that holds one or two documents one after the other,
\* every Decode call succeeds, returns the document of its turn and leaves
\* the offset at the end of that document's bytes (after 1 byte for an End
\* tag), so the second call starts at the byte after the first document and
\* the offset accumulates; while a call runs the offset never passes the end
\* of the document it reads, and the stream itself stays as it was.
C27_ExactConsumption ==
    \A p \in DOMAIN decs :
        decs[p].pc # "new" /\ decs[p].in.cut = 0 /\ decs[p].in.at = 0 =>
            LET in == decs[p].in
                done == decs[p].results
                r == readers[decs[p].r]
            IN /\ r.s = in.s
               /\ \A i \in 1..Len(done) :
                     /\ done[i].err = "nil"
                     /\ done[i].off = EndOf(in, i)
                     /\ done[i].val = in.docs[i]
                     /\ in.docs[i] = EndTag => done[i].off = EndOf(in, i - 1) + 1
               /\ decs[p].pc = "ready" => r.off = EndOf(in, Len(done))
               /\ decs[p].pc = "running" =>
                     /\ r.off >= EndOf(in, Len(done))
                     /\ r.off <= EndOf(in, Len(done) + 1)

\* the second Decode call on a stream of two documents has returned the
\* second document, the first being an End tag or a longer one
C27_Witness ==
    /\ pc = "one" /\ decs # <<>> /\ decs[1].in.cut = 0 /\ decs[1].in.at = 0
    /\ Len(decs[1].results) = 2
    /\ decs[1].results[2].err = "nil"
    /\ decs[1].results[2].val = SteveTag
    /\ decs[1].results[1].val \in {EndTag, ListOfCompounds}
    /\ readers[decs[1].r].off = Len(decs[1].in.s)
    /\ decs[1].results[1].off < decs[1].results[2].off

\* the stream that was decoded has the entries of every compound in
\* ascending name order: it is the output of an Encoder with
\* SortCompounds(true), or it was accepted with no compound of two or more
\* entries in it
AscendingWire ==
    \/ fault[1] = "none" /\ sortCompounds
    \/ \A i \in 1..CountMaps(dec.val.Payload) :
          Cardinality(DOMAIN Maps(dec.val.Payload)[i]) <= 1

\* C28: when Decode accepts a stream whose compounds have their entries in
\* ascending name order, an Encoder with SortCompounds(true) encodes the
\* decoded tag without an error and writes exactly the bytes that Decode
\* consumed.
C28_ReverseRoundTrip ==
    pc = "reencoded" /\ AscendingWire =>
        /\ enc2.err = "nil"
        /\ enc2.out = SubSeq(wire, 1, dec.off)

\* C29: whenever Encode returns nil, every compound it wrote has members
\* of distinct names, every End list header it wrote has the count 0, and
\* Decode accepts the bytes written, consumes all of them and returns a tag
\* of the same type and name with as many compounds as the Encoder wrote.
C29_OutputDecodable ==
    /\ pc = "encoded" /\ enc.err = "nil" =>
          /\ \A i \in 1..Len(enc.orders) :
                \A j, k \in 1..Len(enc.orders[i]) :
                    enc.orders[i][j] = enc.orders[i][k] => j = k
          /\ \A i \in 1..Len(enc.out) :
                enc.role[i] = <<"ltype", 1>> /\ enc.out[i] = TypeEnd =>
                    \A k \in 1..4 : enc.out[i + k] = 0
    /\ pc = "decoded" /\ fault[1] = "none" =>
          /\ dec.err = "nil"
          /\ dec.off = Len(enc.out)
          /\ dec.val.Type = tree.Type /\ dec.val.Name = tree.Name
          /\ CountMaps(dec.val.Payload) = Len(enc.orders)

\* the input begins with the three bytes gzip.NewReader looks for
HasGzipHeader(file) ==
    Len(file) >= 3 /\ \A i \in 1..3 : file[i] = gzipHeader[i]

\* C30: once nbtToJSON has made its Decoder, the Decoder reads the input
\* from its first byte when the input does not begin with a gzip header,
\* and the inflated data of the gzip member when it does; and when the
\* process exits with status 1, no deferred call is left and every file and
\* gzip stream that was opened has been closed.
C30_InputHandling ==
    /\ pc = "nbtjs" /\ cli.probed /\ ~HasGzipHeader(cli.file) =>
          /\ cli.src.end # "none"
          /\ cli.src.s = cli.file
    /\ pc = "nbtjs" /\ cli.probed /\ HasGzipHeader(cli.file) =>
          /\ cli.src.end # "none"
          /\ cli.src.s = Inflate(SubSeq(cli.file, Len(gzipHeader) + 1, Len(cli.file))).val
    /\ pc = "nbtjs" /\ cli.status = 1 =>
          /\ cli.defers = <<>>
          /\ \A c \in cli.opened : \E i \in 1..Len(cli.closed) : cli.closed[i] = c

====
